---- MODULE Spec2Model ----
(***************************************************************************)
(* A model of the agent-memory engine: the relational store (events,       *)
(* entities, relations, reflections, state), the vector store with its     *)
(* lazily created table, the embedding provider's lazy load, and the       *)
(* episodic, semantic and reflection operations built on them.             *)
(*                                                                         *)
(* Every asynchronous operation is cut at its suspension points (each      *)
(* await): one action per segment that runs without yielding.  Several     *)
(* specifications share the module, one per component.                     *)
(***************************************************************************)
EXTENDS Integers, Sequences, FiniteSets, TLC

VARIABLES
  clock,        \* wall clock read by new Date().toISOString()
  nextId,       \* source of generateId(): ids are unique and time-ordered
  events,       \* rows of the events table
  scorerOn,     \* ImportanceScorer.enabled (an API key is configured)
  rec,          \* the record_event calls: position and locals of each
  lanceReady,   \* LanceStorage.ready has resolved
  table,        \* LanceStorage.table is non-null
  dbTable,      \* the 'memories' table exists in the vector database
  initRow,      \* the '__init__' record is in the table
  vectors,      \* vector records: [memory_id, memory_type]
  createCalls,  \* number of db.createTable('memories') calls issued
  entities,     \* rows of the entities table
  relations,    \* rows of the relations table, in insertion order
  relCall,      \* the last create_relation call: inputs, outcome, rows before
  relOk,        \* successful create_relation calls per triple
  reflections,  \* rows of the reflections table, in insertion order
  state,        \* the state key/value table
  hasClient,    \* ReflectionEngine.client is non-null
  threshold,    \* ReflectionEngine.threshold (config.reflectionThreshold)
  refl,         \* the reflect calls: position and locals of each
  should,       \* the last shouldReflect call: agent and result
  upd,          \* the update_entity calls: position and locals of each
  sched,        \* BackgroundScheduler fields, the runtime's timers and ticks
  pipeline,     \* TransformersEmbeddingProvider.pipeline (the load that set it)
  loading,      \* TransformersEmbeddingProvider.loading (the load it holds)
  loads,        \* every _doLoad() started: epoch and outcome
  epoch,        \* number of reset() calls so far
  emb,          \* the embed calls: position and locals of each
  cons,         \* the consolidate calls: position, locals and result of each
  rcl,          \* the last recall call: inputs, vector results, outcome
  core,         \* the core_memory table (rows) and the update_core_memory calls
  unrefl,       \* the last getUnreflectedEvents call: inputs and rows returned
  epi,          \* the last searchEvents, getTimeline or getEvent call
  ladd,         \* the LanceStorage.add calls: arguments, position, outcome
  surplus,      \* rows of the vector table beyond the first of a memory_id
  host          \* runServe: the shutdown handler, the stores' handles, the process

vars == <<clock, nextId, events, scorerOn, rec, lanceReady, table, dbTable,
          initRow, vectors, createCalls, entities, relations, relCall, relOk,
          reflections, state, hasClient, threshold, refl, should, upd, sched,
          pipeline, loading, loads,
          epoch, emb, cons, rcl, core, unrefl, epi, ladd, surplus, host>>

clockVars == <<clock, nextId>>
eventVars == <<events, scorerOn, rec>>
lanceVars == <<lanceReady, table, dbTable, initRow, vectors, createCalls>>
relVars   == <<entities, relations, relCall, relOk>>
reflVars  == <<reflections, state, hasClient, threshold, refl, should>>
entVars   == <<upd>>
schedVars == <<sched>>
embVars   == <<pipeline, loading, loads, epoch, emb>>
opVars    == <<cons, rcl, core, unrefl, epi, ladd, surplus, host>>

(***************************************************************************)
(* Bounds of the model.                                                    *)
(***************************************************************************)
MaxCalls == 2      \* record_event calls
MaxClock == 1      \* clock ticks
MaxRelations == 3  \* rows of the relations table
MaxEvents == 1     \* events inserted for the reflection engine
MaxReflections == 1 \* rows of the reflections table
MaxLoads == 2          \* loads of the embedding model started
MaxResets == 1         \* calls of reset()
MaxTouches == 2        \* touches of one row
MaxStarts == 2         \* calls of the scheduler's start()
MaxTicks == 2          \* firings of the scheduler's timers

Agents == {"a1", "a2"}

\* A nullable value is a sequence of length at most one.
Null == <<>>
Some(v) == <<v>>
IsNull(x) == x = <<>>
Val(x) == x[1]

Calls == 1 .. MaxCalls

\* Importance in tenths: 5 is 0.5, 10 is 1.0.
ImportanceInputs == {Null, Some(3), Some(12)}
ScoreOutputs == {5, 8}

(***************************************************************************)
(* utils/validation: clamp                                                 *)
(***************************************************************************)
Max(a, b) == IF a >= b THEN a ELSE b
Min(a, b) == IF a <= b THEN a ELSE b

\* Math.min(Math.max(value, min), max)
clamp(value, min, max) == Min(Max(value, min), max)

(***************************************************************************)
(* SqliteStorage: events                                                   *)
(***************************************************************************)
insertEvent(evs, e) == evs \cup {e}

deleteEvent_keep(evs, id) == evs

deleteEvent(evs, id) == {e \in evs : e.id # id}

getEvent(evs, id) == {e \in evs : e.id = id}

getEventCount(evs) == Cardinality(evs)

MemoryEvent(id, agent, imp, now) ==
  [id |-> id, agent_id |-> agent, importance |-> imp, created_at |-> now,
   accessed_at |-> Null, access_count |-> 0]

(***************************************************************************)
(* LanceStorage                                                            *)
(***************************************************************************)
VectorRecord(id, type) == [memory_id |-> id, memory_type |-> type]

\* constructor + init(): connect, open 'memories' when it exists
LanceInit ==
  /\ ~lanceReady
  /\ lanceReady' = TRUE
  /\ table' = dbTable
  /\ UNCHANGED <<dbTable, initRow, vectors, createCalls>>

\* count(): 0 without a table, else the rows of the table
lanceCount == IF ~table THEN 0 ELSE Cardinality(vectors) + (IF initRow THEN 1 ELSE 0)

\* ensureTable() after `await this.ready`: is a table to be created?
needsCreate(tbl, calls) == ~tbl

(***************************************************************************)
(* EpisodicMemory.recordEvent                                              *)
(***************************************************************************)
IdleCall == [pc |-> "idle", id |-> 0, agent |-> "a1", now |-> 0,
             importance |-> 0, result |-> "none"]

\* The row is inserted; the call suspends on embeddings.embed.
Inserted(c, id, a, now, imp) ==
  /\ events' = insertEvent(events, MemoryEvent(id, a, clamp(imp, 0, 10), now))
  /\ rec' = [rec EXCEPT ![c] = [pc |-> "embed", id |-> id, agent |-> a,
                                now |-> now, importance |-> clamp(imp, 0, 10),
                                result |-> "none"]]

Compensate_swallow(c, err) ==
  /\ events' = deleteEvent(events, rec[c].id)
  /\ rec' = [rec EXCEPT ![c].pc = "done", ![c].result = "ok"]

\* The catch block: delete the row, rethrow.
Compensate(c, err) ==
  /\ events' = deleteEvent(events, rec[c].id)
  /\ rec' = [rec EXCEPT ![c].pc = "done", ![c].result = err]

RecordEventCall(c, a, imp) ==
  /\ rec[c].pc = "idle"
  /\ \A d \in Calls : d < c => rec[d].pc # "idle"
  /\ nextId' = nextId + 1
  /\ IF IsNull(imp) /\ scorerOn
       THEN /\ rec' = [rec EXCEPT ![c] = [pc |-> "score", id |-> nextId,
                                          agent |-> a, now |-> clock,
                                          importance |-> 0, result |-> "none"]]
            /\ UNCHANGED events
       ELSE Inserted(c, nextId, a, clock, IF IsNull(imp) THEN 5 ELSE Val(imp))
  /\ UNCHANGED <<clock, scorerOn, lanceVars>>

\* importance.score resolved (it never rejects)
RecordEventScored(c, rating) ==
  /\ rec[c].pc = "score"
  /\ Inserted(c, rec[c].id, rec[c].agent, rec[c].now, rating)
  /\ UNCHANGED <<clockVars, scorerOn, lanceVars>>

\* embeddings.embed settled
RecordEventEmbedded(c, ok) ==
  /\ rec[c].pc = "embed"
  /\ IF ok
       THEN rec' = [rec EXCEPT ![c].pc = "ensure"] /\ UNCHANGED events
       ELSE Compensate(c, "embedding_error")
  /\ UNCHANGED <<clockVars, scorerOn, lanceVars>>

\* lance.add: ensureTable resumed after `await this.ready`
RecordEventEnsure(c) ==
  /\ rec[c].pc = "ensure"
  /\ lanceReady
  /\ IF needsCreate(table, createCalls)
       THEN /\ createCalls' = createCalls + 1
            /\ rec' = [rec EXCEPT ![c].pc = "create"]
       ELSE /\ rec' = [rec EXCEPT ![c].pc = "add"]
            /\ UNCHANGED createCalls
  /\ UNCHANGED <<clockVars, events, scorerOn, lanceReady, table, dbTable,
                 initRow, vectors>>

\* db.createTable('memories', [emptyRecord]) settled: it rejects when the
\* table already exists.
RecordEventCreated(c) ==
  /\ rec[c].pc = "create"
  /\ IF dbTable
       THEN /\ Compensate(c, "table_exists")
            /\ UNCHANGED <<table, dbTable, initRow>>
       ELSE /\ dbTable' = TRUE
            /\ initRow' = TRUE
            /\ table' = TRUE
            /\ rec' = [rec EXCEPT ![c].pc = "uninit"]
            /\ UNCHANGED events
  /\ UNCHANGED <<clockVars, scorerOn, lanceReady, vectors, createCalls>>

\* table.delete('memory_id = "__init__"') settled
RecordEventUninit(c) ==
  /\ rec[c].pc = "uninit"
  /\ initRow' = FALSE
  /\ rec' = [rec EXCEPT ![c].pc = "add"]
  /\ UNCHANGED <<clockVars, events, scorerOn, lanceReady, table, dbTable,
                 vectors, createCalls>>

\* table.add([record]) settled
RecordEventAdded(c, ok) ==
  /\ rec[c].pc = "add"
  /\ IF ok
       THEN /\ vectors' = vectors \cup {VectorRecord(rec[c].id, "event")}
            /\ rec' = [rec EXCEPT ![c].pc = "done", ![c].result = "ok"]
            /\ UNCHANGED events
       ELSE /\ Compensate(c, "storage_error")
            /\ UNCHANGED vectors
  /\ UNCHANGED <<clockVars, scorerOn, lanceReady, table, dbTable, initRow,
                 createCalls>>

Tick ==
  /\ clock < MaxClock
  /\ clock' = clock + 1
  /\ UNCHANGED <<nextId, eventVars, lanceVars, relVars, reflVars, embVars, entVars, schedVars, opVars>>

\* new Date() read as t: time does not run backwards.
Now(t) == t \in clock .. MaxClock /\ clock' = t

(***************************************************************************)
(* Specification of the append path over the two stores.  No step of the   *)
(* append path reads the clock except to stamp created_at, so the clock    *)
(* stands still here.                                                      *)
(***************************************************************************)
InitClock == clock = 0 /\ nextId = 1

InitEvents == events = {} /\ scorerOn \in BOOLEAN /\ rec = [c \in Calls |-> IdleCall]

InitLance ==
  /\ lanceReady = FALSE /\ table = FALSE /\ dbTable \in BOOLEAN
  /\ initRow = FALSE /\ vectors = {} /\ createCalls = 0

IdleRel == entities = {} /\ relations = <<>> /\ relCall = Null /\ relOk = <<>>

IdleRefl ==
  /\ reflections = <<>> /\ state = <<>> /\ hasClient = FALSE
  /\ threshold = 0 /\ refl = <<>> /\ should = Null

IdleEnt == upd = <<>>

IdleSched == sched = <<>>

NoEpisodic == [pc |-> "idle", op |-> "none", agent_id |-> Null, result |-> {},
               calls |-> 0]

\* runServe before a signal: the server runs, both stores are open.
NoHost == [pc |-> "serving", timers |-> FALSE, sqliteOpen |-> TRUE, lanceOpen |-> TRUE,
           code |-> 0]

NoCore == [rows |-> {}, call |-> Null, calls |-> 0]

IdleOps == cons = <<>> /\ rcl = Null /\ core = NoCore /\ unrefl = Null /\ epi = NoEpisodic /\ ladd = <<>> /\ surplus = <<>> /\ host = NoHost

IdleEmb == pipeline = Null /\ loading = Null /\ loads = <<>> /\ epoch = 0 /\ emb = <<>>

InitE == InitClock /\ InitEvents /\ InitLance /\ IdleRel /\ IdleRefl /\ IdleEmb /\ IdleEnt /\ IdleSched /\ IdleOps

OnlyEvents == UNCHANGED <<relVars, reflVars, embVars, entVars, schedVars, opVars>>

EvLanceInit == LanceInit /\ UNCHANGED <<clockVars, eventVars>> /\ OnlyEvents
EvCall == \E c \in Calls, a \in Agents, imp \in ImportanceInputs :
            RecordEventCall(c, a, imp) /\ OnlyEvents
EvScored == \E c \in Calls, r \in ScoreOutputs : RecordEventScored(c, r) /\ OnlyEvents
EvEmbedded == \E c \in Calls, ok \in BOOLEAN : RecordEventEmbedded(c, ok) /\ OnlyEvents
EvEnsure == \E c \in Calls : RecordEventEnsure(c) /\ OnlyEvents
EvCreated == \E c \in Calls : RecordEventCreated(c) /\ OnlyEvents
EvUninit == \E c \in Calls : RecordEventUninit(c) /\ OnlyEvents
EvAdded == \E c \in Calls, ok \in BOOLEAN : RecordEventAdded(c, ok) /\ OnlyEvents

NextE ==
  \/ EvLanceInit
  \/ EvCall
  \/ EvScored
  \/ EvEmbedded
  \/ EvEnsure
  \/ EvCreated
  \/ EvUninit
  \/ EvAdded

SpecEvents == InitE /\ [][NextE]_vars

(***************************************************************************)
(* SqliteStorage: entities and relations                                   *)
(***************************************************************************)
\* Names as callers write them, and their case-folded form (COLLATE NOCASE).
Names == {"Alice", "alice", "Acme", "acme"}
Lower(n) == IF n \in {"Alice", "alice"} THEN "alice" ELSE "acme"
RelationTypes == {"works_at", "knows"}

Entity(name) == [id |-> Lower(name), name |-> name]

\* SELECT * FROM entities WHERE name = ? COLLATE NOCASE LIMIT 1
getEntity(ents, name) ==
  LET m == {e \in ents : Lower(e.name) = Lower(name)}
  IN  IF m = {} THEN Null ELSE Some(CHOOSE e \in m : TRUE)

Relation(id, from, to, type, now) ==
  [id |-> id, from_entity |-> from, to_entity |-> to, relation_type |-> type,
   weight |-> 1, valid_from |-> now, valid_until |-> Null, created_at |-> now]

SameTriple(r, from, to, type) ==
  r.from_entity = from /\ r.to_entity = to /\ r.relation_type = type

invalidateRelation_none(rels, from, to, type, validUntil) == rels

invalidateRelation_delete(rels, from, to, type, validUntil) ==
  SelectSeq(rels, LAMBDA r : ~(SameTriple(r, from, to, type) /\ IsNull(r.valid_until)))

\* UPDATE relations SET valid_until = ? WHERE from_entity = ? AND
\* to_entity = ? AND relation_type = ? AND valid_until IS NULL
invalidateRelation(rels, from, to, type, validUntil) ==
  [i \in DOMAIN rels |->
     IF SameTriple(rels[i], from, to, type) /\ IsNull(rels[i].valid_until)
       THEN [rels[i] EXCEPT !.valid_until = Some(validUntil)]
       ELSE rels[i]]

insertRelation(rels, r) == Append(rels, r)

\* SELECT * FROM relations WHERE (from_entity = ? OR to_entity = ?)
\* [AND valid_until IS NULL]
getRelationsFor(rels, entityId, activeOnly) ==
  SelectSeq(rels, LAMBDA r :
    /\ r.from_entity = entityId \/ r.to_entity = entityId
    /\ activeOnly => IsNull(r.valid_until))

(***************************************************************************)
(* SemanticMemory.createRelation                                           *)
(***************************************************************************)
MissingEndpoint_to(fromEntity, toEntity, from, to) == to

\* `Entity not found: ${!fromEntity ? params.from_entity : params.to_entity}`
MissingEndpoint(fromEntity, toEntity, from, to) ==
  IF IsNull(fromEntity) THEN from ELSE to

CreateRelation(from, to, type) ==
  LET fromEntity == getEntity(entities, from)
      toEntity == getEntity(entities, to)
      call == [from |-> from, to |-> to, type |-> type, before |-> relations]
  IN
  /\ Len(relations) < MaxRelations
  /\ IF IsNull(fromEntity) \/ IsNull(toEntity)
       THEN /\ relCall' = Some(call @@
                 [outcome |-> "entity_not_found",
                  name |-> MissingEndpoint(fromEntity, toEntity, from, to)])
            /\ UNCHANGED <<relations, relOk, nextId>>
       ELSE LET f == Val(fromEntity).id
                t == Val(toEntity).id
            IN /\ relations' =
                    insertRelation(
                      invalidateRelation(relations, f, t, type, clock),
                      Relation(nextId, f, t, type, clock))
               /\ nextId' = nextId + 1
               /\ relOk' = [relOk EXCEPT ![<<f, t, type>>] = @ + 1]
               /\ relCall' = Some(call @@ [outcome |-> "ok", name |-> ""])
  /\ UNCHANGED <<clock, entities>>

(***************************************************************************)
(* Specification of the relation writes.  The entities table starts with   *)
(* any set of entities whose names differ case-insensitively.              *)
(***************************************************************************)
EntityIds == {Lower(n) : n \in Names}
Triples == EntityIds \X EntityIds \X RelationTypes

EntityTables ==
  {ents \in SUBSET {Entity(n) : n \in {"Alice", "Acme"}} : TRUE}

IdleEvents == events = {} /\ scorerOn = FALSE /\ rec = <<>>

IdleLance ==
  /\ lanceReady = FALSE /\ table = FALSE /\ dbTable = FALSE
  /\ initRow = FALSE /\ vectors = {} /\ createCalls = 0

InitR ==
  /\ InitClock /\ IdleEvents /\ IdleLance /\ IdleRefl /\ IdleEmb /\ IdleEnt /\ IdleSched /\ IdleOps
  /\ entities \in EntityTables
  /\ relations = <<>>
  /\ relCall = Null
  /\ relOk = [tr \in Triples |-> 0]

RelCreate ==
  /\ \E from \in {"alice", "Acme"}, to \in {"Alice", "acme"}, type \in RelationTypes :
       CreateRelation(from, to, type)
  /\ UNCHANGED <<eventVars, lanceVars, reflVars, embVars, entVars, schedVars, opVars>>

NextR ==
  \/ Tick
  \/ RelCreate

SpecRelations == InitR /\ [][NextR]_vars

(***************************************************************************)
(* SqliteStorage: state, unreflected events, reflections                   *)
(***************************************************************************)
lastReflectedAt(agentId) == <<"last_reflected_at", agentId>>
lastReflectionAt == <<"last_reflection_at">>
lastConsolidationAt == <<"last_consolidation_at">>
StateKeys == {lastReflectionAt, lastConsolidationAt} \cup {lastReflectedAt(a) : a \in Agents}

\* INSERT OR REPLACE INTO state (key, value) VALUES (?, ?)
setState(st, key, value) == [st EXCEPT ![key] = Some(value)]

getState(st, key) == st[key]

\* ORDER BY created_at DESC (rows of one timestamp in insertion order, newest first)
\* The rows of S in the order of their ranks 0, 1, ...
ByRank(S, rank) == [i \in 1 .. Cardinality(S) |-> CHOOSE e \in S : rank[e] = i - 1]

\* The rows of S, newest first (rows of one instant: latest insert first).
SortDesc(S) ==
  ByRank(S, [e \in S |-> Cardinality({o \in S :
                \/ o.created_at > e.created_at
                \/ o.created_at = e.created_at /\ o.id > e.id})])

UnreflectedLimit == 500

\* SELECT * FROM events WHERE agent_id = ? [AND created_at > ?]
\* ORDER BY created_at DESC LIMIT ?
getUnreflectedEvents_inclusive(evs, st, agentId, limit) ==
  LET mark == getState(st, lastReflectedAt(agentId))
      rows == {e \in evs :
                 /\ e.agent_id = agentId
                 /\ ~IsNull(mark) => e.created_at >= Val(mark)}
      sorted == SortDesc(rows)
  IN  SubSeq(sorted, 1, Min(limit, Len(sorted)))

getUnreflectedEvents(evs, st, agentId, limit) ==
  LET mark == getState(st, lastReflectedAt(agentId))
      rows == {e \in evs :
                 /\ e.agent_id = agentId
                 /\ ~IsNull(mark) => e.created_at > Val(mark)}
      sorted == SortDesc(rows)
  IN  SubSeq(sorted, 1, Min(limit, Len(sorted)))

insertReflection(refls, r) == Append(refls, r)

RECURSIVE Sum(_)
Sum(seq) == IF seq = <<>> THEN 0 ELSE Head(seq) + Sum(Tail(seq))

(***************************************************************************)
(* ReflectionEngine                                                        *)
(***************************************************************************)
\* The callers of reflect: each makes one call after another.
Reflects == DOMAIN refl
MaxQuestions == 3

\* unreflected.reduce((sum, e) => sum + e.importance * 10, 0), importance in tenths
cumulativeImportance(unreflected) ==
  Sum([i \in DOMAIN unreflected |-> unreflected[i].importance])

SummaryLimit == 50

\* events.slice(0, 50): the events summarized for the provider
eventSummary(evs) == SubSeq(evs, 1, Min(SummaryLimit, Len(evs)))

\* unreflected.map(e => e.id)
sourceIds_summary(unreflected) ==
  [i \in DOMAIN eventSummary(unreflected) |-> unreflected[i].id]

sourceIds(unreflected) == [i \in DOMAIN unreflected |-> unreflected[i].id]

Reflection(id, insight, unreflected, now) ==
  [id |-> id, source_ids |-> sourceIds(unreflected),
   importance |-> 7, depth |-> 1, created_at |-> now,
   accessed_at |-> Null, access_count |-> 0]

\* if (!this.client)
noClient_never(client) == FALSE

noClient(client) == ~client

\* get enabled(): this.client !== null
enabled == hasClient

\* cumulativeImportance >= this.threshold
thresholdMet_strict(cumulative, limit) == cumulative > limit

thresholdMet(cumulative, limit) == cumulative >= limit

\* shouldReflect(agentId): no await inside, it runs in one piece
shouldReflect(agentId) ==
  IF noClient(hasClient) THEN FALSE
  ELSE thresholdMet(
         cumulativeImportance(
           getUnreflectedEvents(events, state, agentId, UnreflectedLimit)),
         threshold)

ShouldReflect(agentId) ==
  /\ should' = Some([agent |-> agentId, result |-> shouldReflect(agentId)])
  /\ UNCHANGED <<clockVars, events, reflections, vectors, state, refl>>

IdleReflect ==
  [pc |-> "idle", agent |-> "a1", force |-> FALSE, unreflected |-> <<>>,
   questions |-> 0, cur |-> 0, out |-> <<>>, result |-> "none",
   overlapped |-> FALSE, embedFailed |-> {}, summarized |-> 0]

Reflecting(r) == refl[r].pc \notin {"idle", "done"}

\* Returns without reflecting: no client, no events, threshold not met.
ReflectSkip(r, agentId, force, busy) ==
  /\ refl' = [refl EXCEPT ![r] = [IdleReflect EXCEPT
                !.pc = "done", !.agent = agentId, !.force = force,
                !.result = "ok", !.overlapped = busy]]
  /\ UNCHANGED <<state, clock>>

\* A return that also moves the agent's mark to the end of the cycle.
ReflectReturn_advance(r, out) ==
  /\ \E t \in clock .. MaxClock :
       /\ Now(t)
       /\ state' = setState(setState(state, lastReflectionAt, t),
                            lastReflectedAt(refl[r].agent), t)
  /\ refl' = [refl EXCEPT ![r].pc = "done", ![r].result = "ok",
                          ![r].out = out, ![r].questions = 0]

\* After the loop over the questions: set last_reflection_at, return.
ReflectReturn(r, out) ==
  /\ \E t \in clock .. MaxClock :
       Now(t) /\ state' = setState(state, lastReflectionAt, t)
  /\ refl' = [refl EXCEPT ![r].pc = "done", ![r].result = "ok",
                          ![r].out = out, ![r].questions = 0]

\* reflect(agentId, force) up to its first await
ReflectCall(r, agentId, force) ==
  /\ refl[r].pc \in {"idle", "done"}
  /\ \E unreflected \in {getUnreflectedEvents(events, state, agentId, UnreflectedLimit)} :
       LET busy == \E o \in Reflects : Reflecting(o) /\ refl[o].agent = agentId
       IN
       IF \/ noClient(hasClient)
          \/ Len(unreflected) = 0
          \/ ~force /\ ~thresholdMet(cumulativeImportance(unreflected), threshold)
         THEN ReflectSkip(r, agentId, force, busy)
         ELSE /\ refl' = [refl EXCEPT ![r] = [IdleReflect EXCEPT
                            !.pc = "questions", !.agent = agentId, !.force = force,
                            !.unreflected = unreflected, !.overlapped = busy,
                            !.summarized = Len(eventSummary(unreflected))]]
              /\ UNCHANGED <<state, clock>>
  /\ UNCHANGED <<nextId, events, reflections, vectors>>

\* identifySalientQuestions resolved with n questions (none on a provider error)
ReflectQuestions(r, n) ==
  /\ refl[r].pc = "questions"
  /\ IF n = 0
       THEN ReflectReturn(r, <<>>)
       ELSE /\ refl' = [refl EXCEPT ![r].pc = "insight", ![r].questions = n]
            /\ UNCHANGED <<state, clock>>
  /\ UNCHANGED <<nextId, events, reflections, vectors>>

\* One question is done: the next one, or the end of the loop.
ReflectNext(r, out) ==
  IF refl[r].questions = 1
    THEN ReflectReturn(r, out)
    ELSE /\ refl' = [refl EXCEPT ![r].pc = "insight", ![r].out = out,
                                 ![r].questions = @ - 1]
         /\ UNCHANGED <<state, clock>>

\* synthesizeInsight resolved: null (skip), or an insight whose row is
\* inserted before the embedding is awaited
ReflectInsight(r, insight) ==
  /\ refl[r].pc = "insight"
  /\ insight => Len(reflections) < MaxReflections
  /\ IF ~insight
       THEN /\ ReflectNext(r, refl[r].out)
            /\ UNCHANGED <<nextId, reflections>>
       ELSE /\ \E t \in clock .. MaxClock :
                 /\ Now(t)
                 /\ reflections' = insertReflection(reflections,
                      Reflection(nextId, insight, refl[r].unreflected, t))
            /\ nextId' = nextId + 1
            /\ refl' = [refl EXCEPT ![r].pc = "embed", ![r].cur = nextId]
            /\ UNCHANGED state
  /\ UNCHANGED <<events, vectors>>

\* embeddings.embed(insight) settled; a rejection leaves reflect
ReflectEmbedded(r, ok) ==
  /\ refl[r].pc = "embed"
  /\ IF ok
       THEN refl' = [refl EXCEPT ![r].pc = "add"]
       ELSE refl' = [refl EXCEPT ![r].pc = "done", ![r].result = "embedding_error",
                                 ![r].embedFailed = @ \cup {refl[r].cur}]
  /\ UNCHANGED <<clockVars, events, reflections, vectors, state>>

\* lance.add(reflection.id, 'reflection', ...) settled
ReflectAdded(r, ok) ==
  /\ refl[r].pc = "add"
  /\ IF ok
       THEN /\ vectors' = vectors \cup {VectorRecord(refl[r].cur, "reflection")}
            /\ ReflectNext(r, Append(refl[r].out, refl[r].cur))
       ELSE /\ refl' = [refl EXCEPT ![r].pc = "done", ![r].result = "storage_error"]
            /\ UNCHANGED <<vectors, state, clock>>
  /\ UNCHANGED <<nextId, events, reflections>>

\* An event row written for an agent (sqlite.insertEvent).
StoreEvent(agentId, importance) ==
  /\ Cardinality(events) < MaxEvents
  /\ \E t \in clock .. MaxClock :
       /\ Now(t)
       /\ events' = insertEvent(events, MemoryEvent(nextId, agentId, importance, t))
  /\ nextId' = nextId + 1
  /\ UNCHANGED <<reflections, vectors, state, refl>>

(***************************************************************************)
(* Specification of the reflection engine over an opened vector store.     *)
(***************************************************************************)
Thresholds == {8}

\* Lines of the provider's answer to the salient-questions prompt.
QuestionLines == {0, 1, 4}

OpenLance ==
  /\ lanceReady = TRUE /\ table = TRUE /\ dbTable = TRUE
  /\ initRow = FALSE /\ vectors = {} /\ createCalls = 0

InitReflect(callers) ==
  /\ InitClock /\ OpenLance /\ IdleRel /\ IdleEmb /\ IdleEnt /\ IdleSched /\ IdleOps
  /\ events = {} /\ scorerOn = FALSE /\ rec = <<>>
  /\ reflections = <<>>
  /\ state = [k \in StateKeys |-> Null]
  /\ hasClient \in BOOLEAN
  /\ threshold \in Thresholds
  /\ refl = [r \in callers |-> IdleReflect]
  /\ should = Null

\* One caller: reflect calls one after another.
InitF == InitReflect({"c1"})

\* Two callers: reflect calls that overlap.
InitFF == InitReflect({"c1", "c2"})

OnlyReflect ==
  UNCHANGED <<scorerOn, rec, lanceReady, table, dbTable, initRow, createCalls,
              hasClient, threshold, should, relVars, embVars, entVars, schedVars, opVars>>

RfStoreEvent == \E a \in Agents, i \in {3, 8} : StoreEvent(a, i) /\ OnlyReflect
RfCall == \E r \in Reflects, a \in Agents, f \in BOOLEAN : ReflectCall(r, a, f) /\ OnlyReflect
RfQuestions == \E r \in Reflects, lines \in QuestionLines :
                 ReflectQuestions(r, Min(lines, MaxQuestions)) /\ OnlyReflect
RfInsight == \E r \in Reflects, i \in BOOLEAN : ReflectInsight(r, i) /\ OnlyReflect
RfEmbedded == \E r \in Reflects, ok \in BOOLEAN : ReflectEmbedded(r, ok) /\ OnlyReflect
RfAdded == \E r \in Reflects, ok \in BOOLEAN : ReflectAdded(r, ok) /\ OnlyReflect

NextF ==
  \/ RfStoreEvent
  \/ RfCall
  \/ RfQuestions
  \/ RfInsight
  \/ RfEmbedded
  \/ RfAdded

SpecReflect == InitF /\ [][NextF]_vars

SpecReflectOverlap == InitFF /\ [][NextF]_vars

(***************************************************************************)
(* Specification of the reflection engine over a backlog of events of one  *)
(* agent, stored before the first reflect.                                 *)
(***************************************************************************)
Backlogs == {1, 2, 51}

Backlog(n) == {MemoryEvent(i, "a1", 5, 0) : i \in 1 .. n}

InitBacklog(sizes, limits) ==
  /\ clock = 0 /\ OpenLance /\ IdleRel /\ IdleEmb /\ IdleEnt /\ IdleSched /\ IdleOps
  /\ \E n \in sizes : events = Backlog(n) /\ nextId = n + 1
  /\ scorerOn = FALSE /\ rec = <<>>
  /\ reflections = <<>>
  /\ state = [k \in StateKeys |-> Null]
  /\ hasClient \in BOOLEAN
  /\ threshold \in limits
  /\ refl = [r \in {"c1"} |-> IdleReflect]
  /\ should = Null

InitFB == InitBacklog(Backlogs, Thresholds)

NextFB ==
  \/ RfCall
  \/ RfQuestions
  \/ RfInsight
  \/ RfEmbedded
  \/ RfAdded

SpecReflectBacklog == InitFB /\ [][NextFB]_vars

(***************************************************************************)
(* Specification of the reflection engine with shouldReflect calls between *)
(* the steps of reflect, over backlogs below, at and above the threshold.  *)
(***************************************************************************)
GateBacklogs == {0, 1, 2}
GateThresholds == {5, 10}

InitG == InitBacklog(GateBacklogs, GateThresholds)

RfShould ==
  /\ \E a \in Agents : ShouldReflect(a)
  /\ UNCHANGED <<scorerOn, rec, lanceReady, table, dbTable, initRow, createCalls,
                 hasClient, threshold, relVars, embVars, entVars, schedVars, opVars>>

NextG ==
  \/ RfShould
  \/ NextFB

SpecReflectGate == InitG /\ [][NextG]_vars

(***************************************************************************)
(* TransformersEmbeddingProvider: the lazy load of the model.  A load is   *)
(* one call of _doLoad(); loads records each with the number of resets     *)
(* before it and its outcome.  pipeline and loading hold the index of the  *)
(* load that set them.                                                     *)
(***************************************************************************)
Embeds == DOMAIN emb

IdleEmbed ==
  [pc |-> "idle", awaiting |-> Null, result |-> "none", afterFailed |-> FALSE]

Load(resets) == [epoch |-> resets, status |-> "pending"]

\* Has the load started since the last reset already failed?
FailedSince(resets) ==
  \E i \in DOMAIN loads : loads[i].epoch = resets /\ loads[i].status = "failed"

\* if (!this.loading): does ensureLoaded start a load?
startsLoad(pipe, load) == IsNull(pipe) /\ IsNull(load)

\* embed(text) up to `await this.ensureLoaded()`
EmbedCall(e) ==
  /\ emb[e].pc \in {"idle", "done"}
  /\ IF ~IsNull(pipeline)
       THEN /\ emb' = [emb EXCEPT ![e] = [IdleEmbed EXCEPT
                         !.pc = "await", !.afterFailed = FailedSince(epoch)]]
            /\ UNCHANGED <<loading, loads>>
       ELSE IF startsLoad(pipeline, loading)
         THEN /\ Len(loads) < MaxLoads
              /\ loads' = Append(loads, Load(epoch))
              /\ loading' = Some(Len(loads) + 1)
              /\ emb' = [emb EXCEPT ![e] = [IdleEmbed EXCEPT
                           !.pc = "await", !.awaiting = Some(Len(loads) + 1),
                           !.afterFailed = FailedSince(epoch)]]
         ELSE /\ emb' = [emb EXCEPT ![e] = [IdleEmbed EXCEPT
                           !.pc = "await", !.awaiting = loading,
                           !.afterFailed = FailedSince(epoch)]]
              /\ UNCHANGED <<loading, loads>>
  /\ UNCHANGED <<pipeline, epoch>>

\* _doLoad() after its awaits: sets this.pipeline, or throws EmbeddingError
DoLoad(l, ok) ==
  /\ loads[l].status = "pending"
  /\ loads' = [loads EXCEPT ![l].status = IF ok THEN "ok" ELSE "failed"]
  /\ pipeline' = IF ok THEN Some(l) ELSE pipeline
  /\ UNCHANGED <<loading, epoch, emb>>

\* embed(text) after `await this.ensureLoaded()`: rethrows the load's
\* error, or calls this.pipeline (a TypeError when reset() cleared it)
EmbedLoaded(e) ==
  /\ emb[e].pc = "await"
  /\ IF IsNull(emb[e].awaiting) THEN TRUE
       ELSE loads[Val(emb[e].awaiting)].status # "pending"
  /\ IF ~IsNull(emb[e].awaiting) /\ loads[Val(emb[e].awaiting)].status = "failed"
       THEN emb' = [emb EXCEPT ![e].pc = "done", ![e].result = "load_error"]
       ELSE IF IsNull(pipeline)
         THEN emb' = [emb EXCEPT ![e].pc = "done", ![e].result = "type_error"]
         ELSE emb' = [emb EXCEPT ![e].pc = "pipe"]
  /\ UNCHANGED <<pipeline, loading, loads, epoch>>

\* embed(text) after `await pipe(...)`: the dimension check
EmbedPiped(e, dimsOk) ==
  /\ emb[e].pc = "pipe"
  /\ emb' = [emb EXCEPT ![e].pc = "done",
                        ![e].result = IF dimsOk THEN "ok" ELSE "dimension_error"]
  /\ UNCHANGED <<pipeline, loading, loads, epoch>>

\* reset()
Reset ==
  /\ epoch < MaxResets
  /\ pipeline' = Null
  /\ loading' = Null
  /\ epoch' = epoch + 1
  /\ UNCHANGED <<loads, emb>>

(***************************************************************************)
(* Specification of the embedding provider with two callers of embed.      *)
(***************************************************************************)
InitM ==
  /\ InitClock /\ IdleEvents /\ IdleLance /\ IdleRel /\ IdleRefl /\ IdleEnt /\ IdleSched /\ IdleOps
  /\ pipeline = Null /\ loading = Null /\ loads = <<>> /\ epoch = 0
  /\ emb = [e \in {"e1", "e2"} |-> IdleEmbed]

OnlyEmbed ==
  UNCHANGED <<clockVars, eventVars, lanceVars, relVars, reflVars, entVars, schedVars, opVars>>

EmCall == \E e \in Embeds : EmbedCall(e) /\ OnlyEmbed
EmDoLoad == \E l \in DOMAIN loads, ok \in BOOLEAN : DoLoad(l, ok) /\ OnlyEmbed
EmLoaded == \E e \in Embeds : EmbedLoaded(e) /\ OnlyEmbed
EmPiped == \E e \in Embeds, dimsOk \in BOOLEAN : EmbedPiped(e, dimsOk) /\ OnlyEmbed
EmReset == Reset /\ OnlyEmbed

NextM ==
  \/ EmCall
  \/ EmDoLoad
  \/ EmLoaded
  \/ EmPiped
  \/ EmReset

SpecEmbed == InitM /\ [][NextM]_vars

(***************************************************************************)
(* SqliteStorage: entity rows with all their columns                       *)
(***************************************************************************)
\* datetime('now'): the clock (in half seconds) cut to whole seconds
datetimeNow(t) == t \div 2

\* Is the insert stopped by the primary key?  ON CONFLICT(name) handles a
\* row of the same name (compared byte by byte) and no other constraint.
upsertFails(ents, ent) ==
  /\ ~\E row \in ents : row.name = ent.name
  /\ \E row \in ents : row.id = ent.id

\* ON CONFLICT(name) DO UPDATE SET ...
upsertEntity_keepUpdatedAt(ents, ent) ==
  IF \E row \in ents : row.name = ent.name
    THEN {IF row.name = ent.name
            THEN [row EXCEPT !.entity_type = ent.entity_type,
                             !.summary = IF IsNull(ent.summary) THEN @ ELSE ent.summary,
                             !.observations = ent.observations,
                             !.importance = ent.importance]
            ELSE row : row \in ents}
    ELSE ents \cup {ent}

upsertEntity(ents, ent) ==
  IF \E row \in ents : row.name = ent.name
    THEN {IF row.name = ent.name
            THEN [row EXCEPT !.entity_type = ent.entity_type,
                             !.summary = IF IsNull(ent.summary) THEN @ ELSE ent.summary,
                             !.observations = ent.observations,
                             !.importance = ent.importance,
                             !.updated_at = ent.updated_at]
            ELSE row : row \in ents}
    ELSE ents \cup {ent}

\* UPDATE entities SET accessed_at = datetime('now'),
\* access_count = access_count + 1 WHERE id = ?
touchEntity_stamp(ents, id, t) ==
  {IF row.id = id
     THEN [row EXCEPT !.accessed_at = Some(datetimeNow(t)),
                      !.access_count = @ + 1, !.updated_at = t]
     ELSE row : row \in ents}

touchEntity(ents, id, t) ==
  {IF row.id = id
     THEN [row EXCEPT !.accessed_at = Some(datetimeNow(t)), !.access_count = @ + 1]
     ELSE row : row \in ents}

(***************************************************************************)
(* SemanticMemory.updateEntity                                             *)
(***************************************************************************)
Updates == DOMAIN upd

\* [...new Set(mergedObservations)]: the first occurrence of each is kept
RECURSIVE unique(_)
unique_all(seq) == seq

unique(seq) ==
  IF seq = <<>> THEN <<>>
  ELSE LET front == unique(SubSeq(seq, 1, Len(seq) - 1))
           last == seq[Len(seq)]
       IN  IF \E i \in DOMAIN front : front[i] = last
             THEN front ELSE Append(front, last)

\* A merge that keeps only the observations of the call.
mergedObservations_given(old, given) == given

\* [...existing.observations, ...(params.observations ?? [])]
mergedObservations(old, given) == old \o given

\* x ?? y
Coalesce(x, y) == IF IsNull(x) THEN y ELSE x

\* const ent: Entity = { ... }
EntityOf(existing, params, id, now) ==
  LET old == IF IsNull(existing) THEN <<>> ELSE Val(existing).observations
      given == Val(Coalesce(params.observations, Some(<<>>)))
  IN
  [id |-> IF IsNull(existing) THEN id ELSE Val(existing).id,
   name |-> params.name,
   entity_type |-> params.entity_type,
   summary |-> Coalesce(params.summary,
                        IF IsNull(existing) THEN Null ELSE Val(existing).summary),
   observations |-> unique(mergedObservations(old, given)),
   importance |-> Val(Coalesce(params.importance,
                        IF IsNull(existing) THEN Some(5)
                        ELSE Some(Val(existing).importance))),
   created_at |-> IF IsNull(existing) THEN now ELSE Val(existing).created_at,
   updated_at |-> now,
   accessed_at |-> IF IsNull(existing) THEN Null ELSE Val(existing).accessed_at,
   access_count |-> IF IsNull(existing) THEN 0 ELSE Val(existing).access_count]

\* A call: its position, the name and observations it was given, the id of
\* the entity it wrote, whether its transaction committed, its outcome.
IdleUpdate ==
  [pc |-> "idle", name |-> "", observations |-> Null, id |-> 0,
   committed |-> FALSE, result |-> "none"]

\* updateEntity(params) up to `await this.embeddings.embed(...)`: the
\* transaction commits the row, or the insert throws and it rolls back
UpdateEntity(u, params) ==
  /\ upd[u].pc \in {"idle", "done"}
  /\ \E now \in clock .. MaxClock :
       /\ Now(now)
       /\ LET existing == getEntity(entities, params.name)
              ent == EntityOf(existing, params, nextId, now)
          IN  IF upsertFails(entities, ent)
                THEN /\ upd' = [upd EXCEPT ![u] = [IdleUpdate EXCEPT
                                   !.pc = "done", !.name = params.name,
                                   !.observations = params.observations,
                                   !.result = "constraint_error"]]
                     /\ UNCHANGED <<entities, nextId>>
                ELSE /\ entities' = upsertEntity(entities, ent)
                     /\ nextId' = IF IsNull(existing) THEN nextId + 1 ELSE nextId
                     /\ upd' = [upd EXCEPT ![u] = [IdleUpdate EXCEPT
                                   !.pc = "embed", !.name = params.name,
                                   !.observations = params.observations,
                                   !.id = ent.id, !.committed = TRUE]]
  /\ UNCHANGED vectors

\* embeddings.embed(textForEmbedding) settled; a rejection leaves updateEntity
UpdateEmbedded(u, ok) ==
  /\ upd[u].pc = "embed"
  /\ upd' = IF ok THEN [upd EXCEPT ![u].pc = "delete"]
            ELSE [upd EXCEPT ![u].pc = "done", ![u].result = "embedding_error"]
  /\ UNCHANGED <<clockVars, entities, vectors>>

\* lance.delete(entity.id) settled
UpdateDeleted(u, ok) ==
  /\ upd[u].pc = "delete"
  /\ IF ok
       THEN /\ vectors' = {v \in vectors : v.memory_id # upd[u].id}
            /\ upd' = [upd EXCEPT ![u].pc = "add"]
       ELSE /\ upd' = [upd EXCEPT ![u].pc = "done", ![u].result = "storage_error"]
            /\ UNCHANGED vectors
  /\ UNCHANGED <<clockVars, entities>>

\* lance.add(entity.id, 'entity', ...) settled; return entity
UpdateAdded(u, ok) ==
  /\ upd[u].pc = "add"
  /\ IF ok
       THEN /\ vectors' = vectors \cup {VectorRecord(upd[u].id, "entity")}
            /\ upd' = [upd EXCEPT ![u].pc = "done", ![u].result = "ok"]
       ELSE /\ upd' = [upd EXCEPT ![u].pc = "done", ![u].result = "storage_error"]
            /\ UNCHANGED vectors
  /\ UNCHANGED <<clockVars, entities>>

\* sqlite.touchEntity(id), as retrieval does for a row it returns
TouchEntity(id) ==
  /\ \A row \in entities : row.id = id => row.access_count < MaxTouches
  /\ \E t \in clock .. MaxClock :
       Now(t) /\ entities' = touchEntity(entities, id, t)
  /\ UNCHANGED <<nextId, vectors, upd>>

(***************************************************************************)
(* Specification of the entity writes over an opened vector store.         *)
(***************************************************************************)
UpdateNames == {"Alice", "alice"}
ObservationInputs == {Null, Some(<<"o1">>), Some(<<"o2", "o1">>), Some(<<"o1", "o1">>)}

UpdateParams ==
  [name : UpdateNames, entity_type : {"person"}, observations : ObservationInputs,
   summary : {Null, Some("s")}, importance : {Null}]

InitU ==
  /\ InitClock /\ IdleEvents /\ OpenLance /\ IdleRefl /\ IdleEmb /\ IdleSched /\ IdleOps
  /\ entities = {} /\ relations = <<>> /\ relCall = Null /\ relOk = <<>>
  /\ upd = [u \in {"u1"} |-> IdleUpdate]

OnlyEntities ==
  UNCHANGED <<eventVars, lanceReady, table, dbTable, initRow, createCalls,
              relations, relCall, relOk, reflVars, embVars, schedVars, opVars>>

EnUpdate == \E u \in Updates, p \in UpdateParams : UpdateEntity(u, p) /\ OnlyEntities
EnEmbedded == \E u \in Updates, ok \in BOOLEAN : UpdateEmbedded(u, ok) /\ OnlyEntities
EnDeleted == \E u \in Updates, ok \in BOOLEAN : UpdateDeleted(u, ok) /\ OnlyEntities
EnAdded == \E u \in Updates, ok \in BOOLEAN : UpdateAdded(u, ok) /\ OnlyEntities
EnTouch == \E row \in entities : TouchEntity(row.id) /\ OnlyEntities

NextU ==
  \/ EnUpdate
  \/ EnEmbedded
  \/ EnDeleted
  \/ EnAdded
  \/ EnTouch

SpecEntities == InitU /\ [][NextU]_vars

(***************************************************************************)
(* SqliteStorage: touches.  Specification of the touches of stored rows:   *)
(* two events, an entity and a reflection written before the first touch.  *)
(***************************************************************************)
\* UPDATE events SET accessed_at = datetime('now'),
\* access_count = access_count + 1 WHERE id = ?
touchEvent_restamp(evs, id, t) ==
  {IF e.id = id
     THEN [e EXCEPT !.created_at = t, !.accessed_at = Some(datetimeNow(t)),
                    !.access_count = @ + 1]
     ELSE e : e \in evs}

touchEvent(evs, id, t) ==
  {IF e.id = id
     THEN [e EXCEPT !.accessed_at = Some(datetimeNow(t)), !.access_count = @ + 1]
     ELSE e : e \in evs}

\* UPDATE reflections SET accessed_at = datetime('now'),
\* access_count = access_count + 1 WHERE id = ?
touchReflection(refls, id, t) ==
  [i \in DOMAIN refls |->
     IF refls[i].id = id
       THEN [refls[i] EXCEPT !.accessed_at = Some(datetimeNow(t)),
                             !.access_count = @ + 1]
       ELSE refls[i]]

TouchEvent(id) ==
  /\ \A e \in events : e.id = id => e.access_count < MaxTouches
  /\ \E t \in clock .. MaxClock :
       Now(t) /\ events' = touchEvent(events, id, t)
  /\ UNCHANGED <<nextId, entities, reflections, vectors, upd>>

TouchReflection(id) ==
  /\ \A i \in DOMAIN reflections :
       reflections[i].id = id => reflections[i].access_count < MaxTouches
  /\ \E t \in clock .. MaxClock :
       Now(t) /\ reflections' = touchReflection(reflections, id, t)
  /\ UNCHANGED <<nextId, entities, events, vectors, upd>>

StoredIds == 1 .. 4

InitT ==
  /\ clock = 0 /\ nextId = 5
  /\ OpenLance /\ IdleEmb /\ IdleSched /\ IdleOps /\ IdleEnt
  /\ events = {MemoryEvent(1, "a1", 5, 0), MemoryEvent(2, "a2", 5, 0)}
  /\ scorerOn = FALSE /\ rec = <<>>
  /\ entities = {EntityOf(Null, [name |-> "Alice", entity_type |-> "person",
                                 observations |-> Some(<<"o1">>), summary |-> Null,
                                 importance |-> Null], 3, 0)}
  /\ relations = <<>> /\ relCall = Null /\ relOk = <<>>
  /\ reflections = <<Reflection(4, TRUE, <<MemoryEvent(1, "a1", 5, 0)>>, 0)>>
  /\ state = [k \in StateKeys |-> Null]
  /\ hasClient = TRUE /\ threshold \in Thresholds
  /\ refl = <<>> /\ should = Null

OnlyTouch ==
  UNCHANGED <<scorerOn, rec, lanceReady, table, dbTable, initRow, createCalls,
              relations, relCall, relOk, state, hasClient, threshold, refl, should,
              embVars, schedVars, opVars>>

TcEvent == \E id \in StoredIds : TouchEvent(id) /\ OnlyTouch
TcEntity == \E id \in StoredIds :
              TouchEntity(id) /\ UNCHANGED <<events, reflections>> /\ OnlyTouch
TcReflection == \E id \in StoredIds : TouchReflection(id) /\ OnlyTouch

NextT ==
  \/ TcEvent
  \/ TcEntity
  \/ TcReflection

SpecTouch == InitT /\ [][NextT]_vars

(***************************************************************************)
(* BackgroundScheduler.  sched holds the scheduler's fields (running,      *)
(* reflectionTimer, consolidationTimer), the configuration it reads, the   *)
(* runtime's table of active intervals (timers), the tick tasks its timers *)
(* started, the errors logged, and whether a rejection escaped a tick.     *)
(* The engines a tick calls are their outcomes: shouldReflect resolves     *)
(* true or false or rejects, reflect and consolidate resolve or reject.    *)
(***************************************************************************)
TimerKinds == {"reflection", "consolidation"}

Scheduler(reflectionEnabled, consolidationInterval) ==
  [running |-> FALSE, reflectionTimer |-> Null, consolidationTimer |-> Null,
   reflectionEnabled |-> reflectionEnabled,
   consolidationInterval |-> consolidationInterval,
   timers |-> {}, nextTimer |-> 1, starts |-> 0,
   tasks |-> <<>>, logged |-> 0, escaped |-> FALSE]

\* setInterval(callback, ms): a new active interval, its handle stored
setInterval(s, kind) ==
  LET t == [s EXCEPT !.timers = @ \cup {[id |-> s.nextTimer, kind |-> kind]},
                     !.nextTimer = @ + 1]
  IN  IF kind = "reflection"
        THEN [t EXCEPT !.reflectionTimer = Some(s.nextTimer)]
        ELSE [t EXCEPT !.consolidationTimer = Some(s.nextTimer)]

\* clearInterval(handle)
clearInterval(s, handle) ==
  [s EXCEPT !.timers = {t \in @ : t.id # Val(handle)}]

\* if (this.running) return
alreadyRunning_never(s) == FALSE

alreadyRunning(s) == s.running

\* start()
start(s) ==
  IF alreadyRunning(s) THEN s
  ELSE LET s1 == [s EXCEPT !.running = TRUE]
           s2 == IF s1.reflectionEnabled THEN setInterval(s1, "reflection") ELSE s1
       IN  IF s2.consolidationInterval > 0
             THEN setInterval(s2, "consolidation") ELSE s2

\* stop()
stop(s) ==
  LET s1 == IF ~IsNull(s.reflectionTimer)
              THEN [clearInterval(s, s.reflectionTimer) EXCEPT !.reflectionTimer = Null]
              ELSE s
      s2 == IF ~IsNull(s1.consolidationTimer)
              THEN [clearInterval(s1, s1.consolidationTimer)
                      EXCEPT !.consolidationTimer = Null]
              ELSE s1
  IN  [s2 EXCEPT !.running = FALSE]

\* get isRunning()
isRunning(s) == s.running

Start ==
  /\ sched.starts < MaxStarts
  /\ sched' = [start(sched) EXCEPT !.starts = @ + 1]

Stop == sched' = stop(sched)

\* A tick of an interval: the callback calls checkReflection() or
\* runConsolidation(), which run up to their first await.
Task(kind, s) ==
  [kind |-> kind,
   pc |-> IF kind = "consolidation" THEN "consolidate"
          ELSE IF s.reflectionEnabled THEN "should" ELSE "done",
   result |-> IF kind = "reflection" /\ ~s.reflectionEnabled THEN "ok" ELSE "none",
   reflects |-> FALSE, loggedBefore |-> s.logged]

TimerFires(kind) ==
  /\ Len(sched.tasks) < MaxTicks
  /\ \E t \in sched.timers : t.kind = kind
  /\ sched' = [sched EXCEPT !.tasks = Append(@, Task(kind, sched))]

\* .catch(err => logger.error(...)) on the promise of the tick
catches_consolidationOnly(kind) == kind = "consolidation"

catches(kind) == TRUE

\* The promise of tick i rejected.
TickRejected(s, i) ==
  IF catches(s.tasks[i].kind)
    THEN [s EXCEPT !.tasks[i].pc = "done", !.tasks[i].result = "logged",
                   !.logged = @ + 1]
    ELSE [s EXCEPT !.tasks[i].pc = "done", !.tasks[i].result = "escaped",
                   !.escaped = TRUE]

TickResolved(s, i) == [s EXCEPT !.tasks[i].pc = "done", !.tasks[i].result = "ok"]

\* checkReflection() after `await this.reflection.shouldReflect(...)`
CheckReflectionShould(i, outcome) ==
  /\ sched.tasks[i].pc = "should"
  /\ sched' = CASE outcome = "rejects" -> TickRejected(sched, i)
                 [] outcome = "true" -> [sched EXCEPT !.tasks[i].pc = "reflect",
                                                      !.tasks[i].reflects = TRUE]
                 [] OTHER -> TickResolved(sched, i)

\* checkReflection() after `await this.reflection.reflect(...)`
CheckReflectionReflected(i, ok) ==
  /\ sched.tasks[i].pc = "reflect"
  /\ sched' = IF ok THEN TickResolved(sched, i) ELSE TickRejected(sched, i)

\* runConsolidation() after `await this.consolidation.consolidate()`
RunConsolidationDone(i, ok) ==
  /\ sched.tasks[i].pc = "consolidate"
  /\ sched' = IF ok THEN TickResolved(sched, i) ELSE TickRejected(sched, i)

(***************************************************************************)
(* Specification of the scheduler.                                         *)
(***************************************************************************)
ConsolidationIntervals == {0, 60000}

InitS ==
  /\ InitClock /\ IdleEvents /\ IdleLance /\ IdleRel /\ IdleRefl /\ IdleEmb
  /\ IdleEnt /\ IdleOps
  /\ \E e \in BOOLEAN, ms \in ConsolidationIntervals : sched = Scheduler(e, ms)

OnlySched ==
  UNCHANGED <<clockVars, eventVars, lanceVars, relVars, reflVars, embVars, entVars, opVars>>

ScStart == Start /\ OnlySched
ScStop == Stop /\ OnlySched
ScFires == \E k \in TimerKinds : TimerFires(k) /\ OnlySched
ScShould == \E i \in DOMAIN sched.tasks, o \in {"true", "false", "rejects"} :
              CheckReflectionShould(i, o) /\ OnlySched
ScReflected == \E i \in DOMAIN sched.tasks, ok \in BOOLEAN :
                 CheckReflectionReflected(i, ok) /\ OnlySched
ScConsolidated == \E i \in DOMAIN sched.tasks, ok \in BOOLEAN :
                    RunConsolidationDone(i, ok) /\ OnlySched

NextS ==
  \/ ScStart
  \/ ScStop
  \/ ScFires
  \/ ScShould
  \/ ScReflected
  \/ ScConsolidated

SpecSched == InitS /\ [][NextS]_vars

(***************************************************************************)
(* Properties of the append path (SpecEvents).                             *)
(***************************************************************************)
HasRow(id) == getEvent(events, id) # {}
HasVector(id) == \E v \in vectors : v.memory_id = id
InFlight(c) == rec[c].pc \notin {"idle", "done"}
Completed(c) == rec[c].pc = "done"
Failed(c) == Completed(c) /\ rec[c].result # "ok"
RecordErrors == {"embedding_error", "storage_error", "table_exists"}

\* C1: every event id whose record_event call has run to completion has
\* both a relational row and a vector record, or neither.
C1_CompensationInvariant ==
  \A c \in Calls : Completed(c) => (HasRow(rec[c].id) <=> HasVector(rec[c].id))

\* One call returned its event and another was rolled back after the vector
\* insert failed.
C1_Witness ==
  \E c, d \in Calls :
    /\ Completed(c) /\ rec[c].result = "ok" /\ HasRow(rec[c].id)
    /\ Completed(d) /\ rec[d].result = "storage_error"

\* C2: a record_event whose embedding or vector insert failed hands the
\* error to its caller and leaves no row and no vector behind: the event
\* count and the vector count are what they would be without the call.
C2_FailureRollsBack ==
  /\ \A c \in Calls :
       Completed(c) =>
         /\ rec[c].result = "ok" <=> HasVector(rec[c].id)
         /\ rec[c].result # "ok" =>
              rec[c].result \in RecordErrors /\ ~HasRow(rec[c].id)
  /\ getEventCount(events) =
       Cardinality({c \in Calls : (InFlight(c) /\ rec[c].pc # "score")
                                    \/ (Completed(c) /\ rec[c].result = "ok")})
  /\ Cardinality(vectors) =
       Cardinality({c \in Calls : Completed(c) /\ rec[c].result = "ok"})

\* An embedding failure was rolled back while another event is stored.
C2_Witness ==
  \E c, d \in Calls :
    /\ Completed(c) /\ rec[c].result = "embedding_error"
    /\ Completed(d) /\ rec[d].result = "ok"
    /\ getEventCount(events) = 1

\* C7: concurrent first writes to an empty vector store create the
\* 'memories' table exactly once, and none of them fails on the creation.
C7_SingleCreation ==
  /\ createCalls <= 1
  /\ \A c \in Calls : rec[c].result # "table_exists"

(***************************************************************************)
(* Properties of the relation writes (SpecRelations).                      *)
(***************************************************************************)
RowsOf(tr) ==
  SelectSeq(relations, LAMBDA r : SameTriple(r, tr[1], tr[2], tr[3]))
OpenRows(tr) ==
  {i \in DOMAIN relations :
     SameTriple(relations[i], tr[1], tr[2], tr[3]) /\ IsNull(relations[i].valid_until)}

\* C3: every (from_entity, to_entity, relation_type) triple has at most one
\* relation row whose valid_until is null.
C3_AtMostOneOpen == \A tr \in Triples : Cardinality(OpenRows(tr)) <= 1

\* A triple was written twice, and another triple is open beside it.
C3_Witness ==
  \E tr, other \in Triples :
    /\ tr # other
    /\ Len(RowsOf(tr)) = 2 /\ Cardinality(OpenRows(tr)) = 1
    /\ Cardinality(OpenRows(other)) = 1

\* C9: create_relation deletes no row: a triple written by n successful
\* calls has n rows, the newest open and every older one closed with a
\* non-null valid_until.
C9_HistoryKept ==
  \A tr \in Triples :
    LET rows == RowsOf(tr)
    IN /\ Len(rows) = relOk[tr]
       /\ \A i \in DOMAIN rows :
            IF i = Len(rows) THEN IsNull(rows[i].valid_until)
                             ELSE ~IsNull(rows[i].valid_until)

\* One triple was written three times.
C9_Witness == \E tr \in Triples : relOk[tr] = 3 /\ Len(RowsOf(tr)) = 3

\* C10: a create_relation with a missing endpoint fails with 'entity not
\* found' naming the first missing endpoint (the from-endpoint when both
\* are missing) and leaves the relations table as it was; with both
\* endpoints present it does not fail.
C10_MissingEndpoint ==
  ~IsNull(relCall) =>
    LET call == Val(relCall)
        noFrom == IsNull(getEntity(entities, call.from))
        noTo == IsNull(getEntity(entities, call.to))
    IN /\ call.outcome = "entity_not_found" <=> (noFrom \/ noTo)
       /\ call.outcome = "entity_not_found" =>
            /\ call.name = (IF noFrom THEN call.from ELSE call.to)
            /\ relations = call.before

\* A call failed on its to-endpoint while an open row was stored.
C10_Witness ==
  /\ ~IsNull(relCall)
  /\ Val(relCall).outcome = "entity_not_found"
  /\ Val(relCall).name = Val(relCall).to
  /\ \E i \in DOMAIN relations : IsNull(relations[i].valid_until)

\* A call failed with both endpoints missing.
C10_WitnessBoth ==
  /\ ~IsNull(relCall)
  /\ Val(relCall).outcome = "entity_not_found"
  /\ IsNull(getEntity(entities, Val(relCall).from))
  /\ IsNull(getEntity(entities, Val(relCall).to))

(***************************************************************************)
(* Properties of the reflection engine (SpecReflect).                      *)
(***************************************************************************)
ReflectionIds == {reflections[i].id : i \in DOMAIN reflections}

\* C4: a reflect call made while another reflect for the same agent is in
\* flight returns an empty list at once and stores nothing.
C4_ConcurrentGuard ==
  \A r \in Reflects :
    refl[r].overlapped =>
      /\ refl[r].pc = "done" /\ refl[r].result = "ok" /\ refl[r].out = <<>>
      /\ refl[r].cur = 0

\* C5: an insight whose embedding fails is skipped without raising and
\* leaves no reflection row and no reflection vector.
C5_EmbedBeforeInsert ==
  \A r \in Reflects :
    /\ refl[r].result # "embedding_error"
    /\ \A id \in refl[r].embedFailed :
         id \notin ReflectionIds /\ ~HasVector(id)

\* C6: once a reflect that processed an agent's unreflected events has
\* returned, last_reflected_at:<agent> is at or after the creation time of
\* every reflection it returned and none of the events it processed is
\* still unreflected.
C6_WatermarkAdvanced ==
  \A r \in Reflects :
    (refl[r].pc = "done" /\ refl[r].result = "ok" /\ refl[r].unreflected # <<>>) =>
      LET mark == getState(state, lastReflectedAt(refl[r].agent))
      IN /\ ~IsNull(mark)
         /\ \A i \in DOMAIN reflections :
              reflections[i].id \in {refl[r].out[j] : j \in DOMAIN refl[r].out}
                => Val(mark) >= reflections[i].created_at
         /\ LET next == getUnreflectedEvents(events, state, refl[r].agent,
                                             UnreflectedLimit)
            IN  \A i \in DOMAIN next : next[i].created_at > Val(mark)

\* The reflection rows written by the current call of caller r.
WrittenBy(r) ==
  {i \in DOMAIN reflections :
     reflections[i].id \in {refl[r].out[j] : j \in DOMAIN refl[r].out} \cup {refl[r].cur}}

\* C11: every reflection a reflect call creates lists as source_ids the ids
\* of all unreflected events the call pulled at its start, in their order,
\* also when more of them were pulled than are summarized for the provider.
C11_SourceIdsFull ==
  \A r \in Reflects : \A i \in WrittenBy(r) :
    /\ Len(reflections[i].source_ids) = Len(refl[r].unreflected)
    /\ \A k \in DOMAIN refl[r].unreflected :
         reflections[i].source_ids[k] = refl[r].unreflected[k].id
    /\ {reflections[i].source_ids[k] : k \in DOMAIN reflections[i].source_ids}
         = {e.id : e \in {x \in events : x.agent_id = refl[r].agent}}

C11_Witness ==
  \E r \in Reflects : \E i \in WrittenBy(r) :
    /\ refl[r].pc = "done" /\ refl[r].out # <<>>
    /\ Len(refl[r].unreflected) > refl[r].summarized
    /\ Len(reflections[i].source_ids) > SummaryLimit

\* C12: without a provider enabled is false, shouldReflect answers false,
\* every reflect call returns an empty list (any agent, forced or not), and
\* no reflection row, vector or state key is written.
C12_NoProvider ==
  ~hasClient =>
    /\ ~enabled
    /\ ~IsNull(should) => ~Val(should).result
    /\ \A r \in Reflects :
         /\ refl[r].pc \in {"idle", "done"}
         /\ refl[r].pc = "done" => refl[r].result = "ok" /\ refl[r].out = <<>>
    /\ reflections = <<>>
    /\ vectors = {}
    /\ \A k \in StateKeys : IsNull(state[k])

RECURSIVE SetSum(_)
SetSum(S) ==
  IF S = {} THEN 0
  ELSE LET e == CHOOSE x \in S : TRUE IN e.importance + SetSum(S \ {e})

\* The sum of importance (in tenths) over the agent's unreflected events.
Cumulative(agentId) ==
  LET mark == state[lastReflectedAt(agentId)]
  IN  SetSum({e \in events :
                /\ e.agent_id = agentId
                /\ IsNull(mark) \/ e.created_at > Val(mark)})

C12_Witness ==
  /\ ~hasClient
  /\ Cumulative("a1") >= threshold
  /\ should = Some([agent |-> "a1", result |-> FALSE])
  /\ \E r \in Reflects :
       refl[r].pc = "done" /\ refl[r].agent = "a1" /\ refl[r].force

C13_WitnessMet ==
  /\ hasClient
  /\ Cumulative("a1") = threshold
  /\ should = Some([agent |-> "a1", result |-> TRUE])

(***************************************************************************)
(* Properties of the entity writes (SpecEntities).                         *)
(***************************************************************************)
\* Caller u has just made a call whose transaction committed.
Committed(u) ==
  upd'[u] # upd[u] /\ upd[u].pc \in {"idle", "done"} /\ upd'[u].committed

\* The rows whose name equals n up to letter case.
Named(ents, n) == {row \in ents : Lower(row.name) = Lower(n)}

RowOf(ents, id) == CHOOSE row \in ents : row.id = id

Given(u) == IF IsNull(upd'[u].observations) THEN <<>> ELSE Val(upd'[u].observations)

Elements(seq) == {seq[i] : i \in DOMAIN seq}

NoDuplicates(seq) == \A i, j \in DOMAIN seq : seq[i] = seq[j] => i = j

FirstIndex(seq, x) == CHOOSE i \in DOMAIN seq : seq[i] = x /\ \A j \in 1 .. i - 1 : seq[j] # x

\* C16: the observation list an update_entity call stores has no
\* duplicates and is the previous list followed by the given observations
\* that were not in it, each once, in the order of their first occurrence.
C16_ObservationsMerged ==
  [][\A u \in Updates : Committed(u) =>
       LET before == Named(entities, upd'[u].name)
           prev == IF before = {} THEN <<>>
                   ELSE (CHOOSE row \in before : TRUE).observations
           stored == RowOf(entities', upd'[u].id).observations
           added == SubSeq(stored, Len(prev) + 1, Len(stored))
       IN  /\ NoDuplicates(stored)
           /\ Len(stored) >= Len(prev)
           /\ SubSeq(stored, 1, Len(prev)) = prev
           /\ Elements(added) = Elements(Given(u)) \ Elements(prev)
           /\ \A i, j \in DOMAIN added :
                i < j => FirstIndex(Given(u), added[i]) < FirstIndex(Given(u), added[j])
    ]_vars

C16_Witness ==
  \E u \in Updates, row \in entities :
    /\ upd[u].pc = "done" /\ upd[u].result = "ok" /\ row.id = upd[u].id
    /\ upd[u].observations = Some(<<"o2", "o1">>)
    /\ row.observations = <<"o1", "o2">>

\* C17: an update_entity call on an existing entity keeps its id,
\* created_at, accessed_at and access_count, sets updated_at to the time of
\* the call, not before created_at, and leaves the observation list as it
\* was when the observations given are the ones stored.
C17_UpdateKeepsAccess ==
  [][\A u \in Updates : (Committed(u) /\ Named(entities, upd'[u].name) # {}) =>
       LET old == CHOOSE row \in Named(entities, upd'[u].name) : TRUE
           new == RowOf(entities', upd'[u].id)
       IN  /\ new.id = old.id
           /\ new.created_at = old.created_at
           /\ new.accessed_at = old.accessed_at
           /\ new.access_count = old.access_count
           /\ new.updated_at = clock'
           /\ new.updated_at >= new.created_at
           /\ Given(u) = old.observations => new.observations = old.observations
           /\ Cardinality(entities') = Cardinality(entities)
    ]_vars

C17_Witness ==
  \E u \in Updates, row \in entities :
    /\ upd[u].pc = "embed" /\ row.id = upd[u].id
    /\ row.access_count = 2 /\ ~IsNull(row.accessed_at)
    /\ row.updated_at > row.created_at
    /\ upd[u].observations = Some(row.observations)

\* C18: no two entity rows have names that are equal up to letter case,
\* and an update_entity call whose name differs only in case from a stored
\* entity does not fail.
C18_CaseInsensitiveNames ==
  /\ \A r1, r2 \in entities : Lower(r1.name) = Lower(r2.name) => r1 = r2
  /\ \A u \in Updates : upd[u].result # "constraint_error"

\* C19: an update_entity call whose row was committed returns the entity
\* also when the embedding or the vector refresh failed, and the row stays.
C19_VectorFailureNotRaised ==
  \A u \in Updates :
    (upd[u].pc = "done" /\ upd[u].committed) =>
      /\ upd[u].result = "ok"
      /\ \E row \in entities : row.id = upd[u].id

(***************************************************************************)
(* Properties of the touches (SpecTouch).                                  *)
(***************************************************************************)
\* Row new is row old after one touch.
Touched(old, new) ==
  /\ new = [old EXCEPT !.accessed_at = new.accessed_at,
                       !.access_count = old.access_count + 1]
  /\ ~IsNull(new.accessed_at)
  /\ IsNull(old.accessed_at) \/ Val(new.accessed_at) >= Val(old.accessed_at)

\* Every row of the table after the step is a row of before, or one touched.
TouchedRows(before, after) ==
  /\ Cardinality(after) = Cardinality(before)
  /\ \A new \in after :
       new \in before \/ \E old \in before : old.id = new.id /\ Touched(old, new)

\* C20: a touch of an event, an entity or a reflection adds exactly one to
\* the row's access_count, sets accessed_at to a time not before its
\* previous value, and changes no other field (not updated_at) and no
\* other row.
C20_TouchMonotone ==
  [][/\ TouchedRows(events, events')
     /\ TouchedRows(entities, entities')
     /\ TouchedRows(Elements(reflections), Elements(reflections'))
     /\ Len(reflections') = Len(reflections)
     /\ Cardinality({id \in StoredIds :
           \/ \E e \in events : e.id = id /\ e \notin events'
           \/ \E e \in entities : e.id = id /\ e \notin entities'
           \/ \E i \in DOMAIN reflections :
                reflections[i].id = id /\ reflections'[i] # reflections[i]}) <= 1
    ]_vars

C20_Witness ==
  /\ \E e \in events : e.access_count = 2
  /\ \E e \in entities : e.access_count = 2 /\ clock > e.updated_at
  /\ reflections[1].access_count = 2

(***************************************************************************)
(* Properties of the scheduler (SpecSched).                                *)
(***************************************************************************)
\* What start and stop act on: the flag, the two handles, the active timers.
Lifecycle(s) == <<s.running, s.reflectionTimer, s.consolidationTimer, s.timers>>

\* C14: from every state of the scheduler, start; start; stop; stop leaves
\* what start; stop leaves; a second start adds no timer; after stop no
\* timer is active and isRunning is false; stop on a scheduler that is not
\* running changes nothing.
C14_StartStopIdempotent ==
  /\ Lifecycle(stop(stop(start(start(sched))))) = Lifecycle(stop(start(sched)))
  /\ Lifecycle(start(start(sched))) = Lifecycle(start(sched))
  /\ stop(sched).timers = {} /\ ~isRunning(stop(sched))
  /\ ~isRunning(sched) => Lifecycle(stop(sched)) = Lifecycle(sched)
  /\ {t.id : t \in sched.timers} =
       {Val(h) : h \in {x \in {sched.reflectionTimer, sched.consolidationTimer} :
                          ~IsNull(x)}}

C14_Witness ==
  /\ sched.starts = 2
  /\ ~isRunning(sched)
  /\ sched.nextTimer = 3
  /\ sched.tasks # <<>>

\* C15: a rejection of shouldReflect, reflect or consolidate inside a tick
\* is logged and does not escape the tick; it stops no timer and leaves
\* the running flag as it was.
C15_TickErrorsSwallowed ==
  /\ ~sched.escaped
  /\ \A i \in DOMAIN sched.tasks : sched.tasks[i].result # "escaped"
  /\ sched.logged =
       Cardinality({i \in DOMAIN sched.tasks : sched.tasks[i].result = "logged"})
  /\ isRunning(sched) =>
       /\ sched.reflectionEnabled =>
            \E t \in sched.timers : t.kind = "reflection"
       /\ sched.consolidationInterval > 0 =>
            \E t \in sched.timers : t.kind = "consolidation"

C15_Witness ==
  /\ isRunning(sched) /\ sched.starts = 1
  /\ \E i, j \in DOMAIN sched.tasks :
       /\ sched.tasks[i].kind = "reflection" /\ sched.tasks[i].result = "logged"
       /\ sched.tasks[j].kind = "consolidation" /\ sched.tasks[j].loggedBefore > 0
       /\ sched.tasks[j].result = "ok"

(***************************************************************************)
(* Properties of the embedding provider (SpecEmbed).                       *)
(***************************************************************************)
\* C8: between resets at most one load of the model is started, and an
\* embed call made after the load of the current period failed fails with
\* the load's embedding error.
C8_SingleLoad ==
  /\ \A i, j \in DOMAIN loads : loads[i].epoch = loads[j].epoch => i = j
  /\ \A e \in Embeds :
       (emb[e].pc = "done" /\ emb[e].afterFailed) => emb[e].result = "load_error"

(***************************************************************************)
(* SqliteStorage.getUnreflectedEvents over stored events and watermarks.   *)
(* Specification: any set of stored events of two agents, the watermarks   *)
(* written with setState, and queries with and without a limit.            *)
(***************************************************************************)
MaxStamp == 2          \* latest created_at of a stored event
PoolSize == 6          \* events a store may hold

QueryLimits == {1, 2, UnreflectedLimit}

\* The events a store may hold: four of a1 and two of a2, some of one instant.
EventPool ==
  {MemoryEvent(i, IF i % 3 = 0 THEN "a2" ELSE "a1", 5, (i \div 2) % (MaxStamp + 1)) :
     i \in 1 .. PoolSize}

\* setState('last_reflected_at:<agent>', value)
SetWatermark(agentId, value) ==
  /\ state' = setState(state, lastReflectedAt(agentId), value)
  /\ UNCHANGED unrefl

\* getUnreflectedEvents(agentId, limit = 500)
GetUnreflectedEvents(agentId, limit) ==
  /\ unrefl' = Some([agent |-> agentId, limit |-> limit,
                     mark |-> getState(state, lastReflectedAt(agentId)),
                     rows |-> getUnreflectedEvents(events, state, agentId, limit)])
  /\ UNCHANGED state

InitQ ==
  /\ InitClock /\ OpenLance /\ IdleRel /\ IdleEmb /\ IdleEnt /\ IdleSched
  /\ events \in SUBSET EventPool
  /\ scorerOn = FALSE /\ rec = <<>>
  /\ reflections = <<>>
  /\ state = [k \in StateKeys |-> Null]
  /\ hasClient = FALSE /\ threshold = 0 /\ refl = <<>> /\ should = Null
  /\ cons = <<>> /\ rcl = Null /\ core = NoCore /\ unrefl = Null /\ epi = NoEpisodic /\ ladd = <<>> /\ surplus = <<>> /\ host = NoHost

OnlyQuery ==
  UNCHANGED <<clockVars, eventVars, lanceVars, relVars, reflections, hasClient,
              threshold, refl, should, embVars, entVars, schedVars, cons, rcl, core,
              epi, ladd, surplus, host>>

QrSetWatermark == \E a \in Agents, t \in 0 .. MaxStamp : SetWatermark(a, t) /\ OnlyQuery
QrGetUnreflected == \E a \in Agents, n \in QueryLimits :
                      GetUnreflectedEvents(a, n) /\ OnlyQuery

NextQ ==
  \/ QrSetWatermark
  \/ QrGetUnreflected

SpecUnreflected == InitQ /\ [][NextQ]_vars

(***************************************************************************)
(* Properties of the unreflected-event query (SpecUnreflected).            *)
(***************************************************************************)
\* The agent's stored events that the watermark read by the query lets through.
Qualifying(q) ==
  {e \in events : /\ e.agent_id = q.agent
                  /\ ~IsNull(q.mark) => e.created_at > Val(q.mark)}

\* C30: get_unreflected_events(agent) returns only that agent's events whose
\* created_at is strictly greater than the agent's stored watermark (all of
\* the agent's events when none is stored), newest first, each once, and at
\* most limit of them: all of them when they fit, else the newest ones.
C30_UnreflectedQuery ==
  ~IsNull(unrefl) =>
    LET q == Val(unrefl)
        n == Len(q.rows)
    IN  /\ \A i \in 1 .. n : q.rows[i] \in Qualifying(q)
        /\ \A i, j \in 1 .. n : i < j => /\ q.rows[i].created_at >= q.rows[j].created_at
                                         /\ q.rows[i] # q.rows[j]
        /\ n = Min(q.limit, Cardinality(Qualifying(q)))
        /\ \A e \in Qualifying(q) :
             (\A i \in 1 .. n : q.rows[i] # e) =>
               \A i \in 1 .. n : q.rows[i].created_at >= e.created_at

\* A query under a stored watermark that holds back an event of the agent
\* stamped exactly at the watermark, returns two rows and leaves one out for
\* the limit.
C30_Witness ==
  /\ ~IsNull(unrefl)
  /\ ~IsNull(Val(unrefl).mark)
  /\ \E e \in events : e.agent_id = Val(unrefl).agent /\ e.created_at = Val(Val(unrefl).mark)
  /\ Len(Val(unrefl).rows) = 2
  /\ Cardinality(Qualifying(Val(unrefl))) > 2

(***************************************************************************)
(* SemanticMemory.updateCoreMemory.  A text is a sequence of runs, each a  *)
(* character repeated n >= 1 times, so that texts of thousands of          *)
(* characters are cut and compared character by character.                 *)
(***************************************************************************)
MaxEdits == 3          \* update_core_memory calls

CORE_MEMORY_MAX_CHARS == 5000

Run(ch, n) == [ch |-> ch, n |-> n]

\* String.prototype.length
RECURSIVE length(_)
length(text) == IF text = <<>> THEN 0 ELSE Head(text).n + length(Tail(text))

\* text.slice(0, n)
RECURSIVE slice_tail(_, _)
slice_tail(text, n) ==
  IF length(text) <= n THEN text
  ELSE IF Head(text).n > length(text) - n
         THEN <<Run(Head(text).ch, Head(text).n - (length(text) - n))>> \o Tail(text)
         ELSE slice_tail(Tail(text), n)

RECURSIVE slice(_, _)
slice(text, n) ==
  IF text = <<>> \/ n <= 0 THEN <<>>
  ELSE IF Head(text).n <= n
         THEN <<Head(text)>> \o slice(Tail(text), n - Head(text).n)
         ELSE <<Run(Head(text).ch, n)>>

\* `${current}\n${params.content}`
Newline == <<Run("\n", 1)>>

BlockTypes == {"persona", "user_profile"}

\* SELECT * FROM core_memory WHERE block_type = ? AND block_key = ?
getCoreMemoryBlock(rows, blockType, blockKey) ==
  LET m == {b \in rows : b.block_type = blockType /\ b.block_key = blockKey}
  IN  IF m = {} THEN Null ELSE Some(CHOOSE b \in m : TRUE)

\* INSERT ... ON CONFLICT(block_type, block_key) DO UPDATE SET content, updated_at
upsertCoreMemory(rows, block) ==
  IF \E b \in rows : b.block_type = block.block_type /\ b.block_key = block.block_key
    THEN {IF b.block_type = block.block_type /\ b.block_key = block.block_key
            THEN [b EXCEPT !.content = block.content, !.updated_at = block.updated_at]
            ELSE b : b \in rows}
    ELSE rows \cup {block}

\* DELETE FROM core_memory WHERE block_type = ? AND block_key = ?
deleteCoreMemory(rows, blockType, blockKey) ==
  {b \in rows : ~(b.block_type = blockType /\ b.block_key = blockKey)}

\* case 'append': the text to store
appended(existing, content) ==
  LET current == IF IsNull(existing) THEN <<>> ELSE Val(existing).content
      newContent == IF current # <<>> THEN current \o Newline \o content ELSE content
  IN  IF length(newContent) > CORE_MEMORY_MAX_CHARS
        THEN slice(newContent, CORE_MEMORY_MAX_CHARS)
        ELSE newContent

\* updateCoreMemory({block_type, block_key, operation, content})
UpdateCoreMemory(blockType, blockKey, operation, content) ==
  /\ core.calls < MaxEdits
  /\ \E now \in clock .. MaxClock :
       LET existing == getCoreMemoryBlock(core.rows, blockType, blockKey)
           call == [block_type |-> blockType, block_key |-> blockKey,
                    operation |-> operation, content |-> content,
                    existing |-> existing]
           block(text) == [id |-> IF IsNull(existing) THEN nextId ELSE Val(existing).id,
                           block_type |-> blockType, block_key |-> blockKey,
                           content |-> text, updated_at |-> now]
           written(text) ==
             /\ core' = [rows |-> upsertCoreMemory(core.rows, block(text)),
                         call |-> Some(call @@ [result |-> block(text)]),
                         calls |-> core.calls + 1]
             /\ nextId' = IF IsNull(existing) THEN nextId + 1 ELSE nextId
       IN  /\ Now(now)
           /\ CASE operation = "append" -> written(appended(existing, content))
                [] operation = "replace" -> written(slice(content, CORE_MEMORY_MAX_CHARS))
                [] operation = "remove" ->
                     /\ core' = [rows |-> IF IsNull(existing) THEN core.rows
                                          ELSE deleteCoreMemory(core.rows, blockType, blockKey),
                                 call |-> Some(call @@ [result |-> block(<<>>)]),
                                 calls |-> core.calls + 1]
                     /\ nextId' = nextId

\* Texts a caller sends: empty, a short marker, 5000 and 5001 of one character.
Contents == {<<>>, <<Run("B", 16)>>, <<Run("y", CORE_MEMORY_MAX_CHARS)>>,
             <<Run("x", CORE_MEMORY_MAX_CHARS + 1)>>}

InitC ==
  /\ InitClock /\ IdleEvents /\ IdleLance /\ IdleRel /\ IdleRefl /\ IdleEmb
  /\ IdleEnt /\ IdleSched /\ IdleOps

OnlyCore ==
  UNCHANGED <<eventVars, lanceVars, relVars, reflVars, embVars, entVars, schedVars,
              cons, rcl, unrefl, epi, ladd, surplus, host>>

CmUpdate == \E bt \in BlockTypes, op \in {"append", "replace", "remove"}, c \in Contents :
              UpdateCoreMemory(bt, "default", op, c) /\ OnlyCore

NextC == CmUpdate

SpecCore == InitC /\ [][NextC]_vars

(***************************************************************************)
(* Properties of the core memory blocks (SpecCore).                        *)
(***************************************************************************)
\* The i-th character of a text, 1 <= i <= length(text).
RECURSIVE charAt(_, _)
charAt(text, i) ==
  IF i <= Head(text).n THEN Head(text).ch ELSE charAt(Tail(text), i - Head(text).n)

\* The first and the last position of every run of a text.
Boundaries(text) ==
  UNION {{length(SubSeq(text, 1, k - 1)) + 1, length(SubSeq(text, 1, k))} :
           k \in DOMAIN text}

\* text is the first Min(n, length(full)) characters of full.  Two texts that
\* agree at every first and last position of a run of either agree everywhere.
IsLeading(text, full, n) ==
  /\ length(text) = Min(n, length(full))
  /\ \A i \in Boundaries(text) \cup Boundaries(full) :
       i <= length(text) => charAt(text, i) = charAt(full, i)

\* The row of the block the last call wrote.
StoredBlock(call) == getCoreMemoryBlock(core.rows, call.block_type, call.block_key)

\* The last call appended to a block that existed.
AppendedTo(call) == call.operation = "append" /\ ~IsNull(call.existing)

\* C29: every stored block's content is at most 5 000 characters, and an
\* append to a block with content stores the leading 5 000 characters of
\* existing content + newline + new content; an append to a block with empty
\* content, or to no block, stores the leading 5 000 characters of the new
\* content, with no newline before it.
C29_CoreMemoryBounded ==
  /\ \A b \in core.rows : length(b.content) <= CORE_MEMORY_MAX_CHARS
  /\ ~IsNull(core.call) =>
       LET call == Val(core.call)
           before == IF IsNull(call.existing) THEN <<>> ELSE Val(call.existing).content
       IN  call.operation = "append" =>
             /\ ~IsNull(StoredBlock(call))
             /\ Val(StoredBlock(call)).content = call.result.content
             /\ IsLeading(call.result.content,
                          IF before = <<>> THEN call.content
                          ELSE before \o Newline \o call.content,
                          CORE_MEMORY_MAX_CHARS)

\* An append of 5 000 characters to a block holding a 16-character marker:
\* the stored text is 5 000 long and still starts with the marker.
C29_Witness ==
  /\ ~IsNull(core.call)
  /\ AppendedTo(Val(core.call))
  /\ Val(Val(core.call).existing).content = <<Run("B", 16)>>
  /\ Val(core.call).content = <<Run("y", CORE_MEMORY_MAX_CHARS)>>
  /\ length(Val(core.call).result.content) = CORE_MEMORY_MAX_CHARS
  /\ charAt(Val(core.call).result.content, 16) = "B"

\* existing content + newline + new content is longer than the maximum.
Overflows(call) ==
  length(Val(call.existing).content) + 1 + length(call.content) > CORE_MEMORY_MAX_CHARS

\* C29 as stated: an append to an existing block that overflows always stores
\* the leading 5 000 characters of existing content + newline + new content.
C29_AppendAlwaysNewline ==
  (~IsNull(core.call) /\ AppendedTo(Val(core.call)) /\ Overflows(Val(core.call))) =>
    IsLeading(Val(core.call).result.content,
              Val(Val(core.call).existing).content \o Newline \o Val(core.call).content,
              CORE_MEMORY_MAX_CHARS)

(***************************************************************************)
(* ConsolidationEngine.consolidate.  A call is cut at its awaits: the      *)
(* summary request, the embedding, the vector delete and the vector add of *)
(* each entity that needs work; entities that need none are passed without *)
(* yielding.  Calls run one after another and nothing else writes.         *)
(***************************************************************************)
MaxConsolidations == 2   \* consolidate calls

PruneLimit == 20

\* 7 days in clock units (half seconds)
StaleAfter == 7 * 24 * 3600 * 2

\* SELECT * FROM entities ORDER BY updated_at DESC
getAllEntities(ents) ==
  ByRank(ents, [e \in ents |-> Cardinality({o \in ents :
                  \/ o.updated_at > e.updated_at
                  \/ o.updated_at = e.updated_at /\ o.id < e.id})])

\* entity.observations.slice(-20)
kept_first(observations) == SubSeq(observations, 1, Min(PruneLimit, Len(observations)))

kept(observations) ==
  SubSeq(observations, Max(1, Len(observations) - PruneLimit + 1), Len(observations))

\* isStale(entity): updated more than 7 days before now
isStale(entity, now) == now - entity.updated_at > StaleAfter

\* if (this.client && (changed || !entity.summary || this.isStale(entity)))
wantsSummary(entity, changed, now) ==
  hasClient /\ (changed \/ IsNull(entity.summary) \/ isStale(entity, now))

\* Does the loop body await anything for this entity?
needsWork_full(entity, now) ==
  Len(entity.observations) >= PruneLimit \/ wantsSummary(entity, FALSE, now)

needsWork(entity, now) ==
  Len(entity.observations) > PruneLimit \/ wantsSummary(entity, FALSE, now)

IdleConsolidate ==
  [pc |-> "call", entities |-> <<>>, i |-> 1, entity |-> Null, changed |-> FALSE,
   entitiesUpdated |-> 0, observationsPruned |-> 0, summariesRefreshed |-> 0,
   result |-> "none"]

\* for (const entity of entities): from entity i up to the next await, or to
\* the end of the loop
Proceed(c, i, now) ==
  LET rest == {j \in i .. Len(c.entities) : needsWork(c.entities[j], now)}
  IN  IF rest = {}
        THEN [c EXCEPT !.pc = "done", !.i = Len(c.entities) + 1, !.entity = Null,
                       !.changed = FALSE, !.result = "ok"]
        ELSE LET j == CHOOSE k \in rest : \A l \in rest : k <= l
                 entity == c.entities[j]
                 prune == Len(entity.observations) > PruneLimit
                 pruned == IF prune
                             THEN [entity EXCEPT !.observations = kept(entity.observations)]
                             ELSE entity
             IN  [c EXCEPT !.i = j, !.entity = Some(pruned), !.changed = prune,
                           !.observationsPruned =
                              @ + Len(entity.observations) - Len(pruned.observations),
                           !.pc = IF wantsSummary(pruned, prune, now)
                                    THEN "summary" ELSE "embed"]

\* The call goes on from entity i; when the loop is over it sets
\* last_consolidation_at and returns.
Continue(c, i, now) ==
  \E next \in {Proceed(c, i, now)} :
    /\ cons' = [cons EXCEPT ![Len(cons)] = next]
    /\ state' = IF next.pc = "done"
                  THEN setState(state, lastConsolidationAt, now) ELSE state

ConsolidateCall ==
  /\ Len(cons) < MaxConsolidations
  /\ \A k \in DOMAIN cons : cons[k].pc = "done"
  /\ \E now \in clock .. MaxClock :
       /\ Now(now)
       /\ \E next \in {Proceed([IdleConsolidate EXCEPT !.entities = getAllEntities(entities)],
                               1, now)} :
            /\ cons' = Append(cons, next)
            /\ state' = IF next.pc = "done"
                          THEN setState(state, lastConsolidationAt, now) ELSE state
  /\ UNCHANGED <<nextId, entities, vectors>>

Consolidating(pc) == cons # <<>> /\ cons[Len(cons)].pc = pc

\* await this.refreshSummary(entity) resolves: a text, or null
ConsolidateSummarized(newSummary) ==
  /\ Consolidating("summary")
  /\ LET c == cons[Len(cons)]
         refreshed == ~IsNull(newSummary)
         changed == c.changed \/ refreshed
         d == [c EXCEPT !.entity = IF refreshed
                                     THEN Some([Val(c.entity) EXCEPT !.summary = newSummary])
                                     ELSE c.entity,
                        !.summariesRefreshed = IF refreshed THEN @ + 1 ELSE @,
                        !.changed = changed]
     IN  IF changed
           THEN /\ cons' = [cons EXCEPT ![Len(cons)] = [d EXCEPT !.pc = "embed"]]
                /\ UNCHANGED <<clock, state>>
           ELSE \E now \in clock .. MaxClock : Now(now) /\ Continue(d, c.i + 1, now)
  /\ UNCHANGED <<nextId, entities, vectors>>

\* await this.embeddings.embed(textForEmbedding) settles; on success the row
\* is written and the vector delete is issued
ConsolidateEmbedded(ok) ==
  /\ Consolidating("embed")
  /\ LET c == cons[Len(cons)]
     IN  IF ok
           THEN \E now \in clock .. MaxClock :
                  /\ Now(now)
                  /\ entities' = upsertEntity(entities,
                                   [Val(c.entity) EXCEPT !.updated_at = now])
                  /\ cons' = [cons EXCEPT ![Len(cons)].pc = "delete"]
           ELSE /\ cons' = [cons EXCEPT ![Len(cons)].pc = "done",
                                        ![Len(cons)].result = "embedding_error"]
                /\ UNCHANGED <<clock, entities>>
  /\ UNCHANGED <<nextId, state, vectors>>

\* catch (err) { logger.warn(...) }; entitiesUpdated++: on to the next entity
Counted(c, now) ==
  Continue([c EXCEPT !.entitiesUpdated = @ + 1], c.i + 1, now)

\* await this.lance.delete(entity.id) settles
ConsolidateDeleted(ok) ==
  /\ Consolidating("delete")
  /\ LET c == cons[Len(cons)]
     IN  IF ok
           THEN /\ vectors' = {v \in vectors : v.memory_id # Val(c.entity).id}
                /\ cons' = [cons EXCEPT ![Len(cons)].pc = "add"]
                /\ UNCHANGED <<clock, state>>
           ELSE /\ \E now \in clock .. MaxClock : Now(now) /\ Counted(c, now)
                /\ UNCHANGED vectors
  /\ UNCHANGED <<nextId, entities>>

\* await this.lance.add(entity.id, 'entity', ...) settles
ConsolidateAdded(ok) ==
  /\ Consolidating("add")
  /\ LET c == cons[Len(cons)]
     IN  /\ vectors' = IF ok THEN vectors \cup {VectorRecord(Val(c.entity).id, "entity")}
                       ELSE vectors
         /\ \E now \in clock .. MaxClock : Now(now) /\ Counted(c, now)
  /\ UNCHANGED <<nextId, entities>>

\* Entities as the tests insert them: observations 1 .. n, with a vector each.
StoredEntity(id, name, n, summary, updatedAt) ==
  [id |-> id, name |-> name, entity_type |-> "concept", summary |-> summary,
   observations |-> [k \in 1 .. n |-> k], importance |-> 5,
   created_at |-> updatedAt, updated_at |-> updatedAt,
   accessed_at |-> Null, access_count |-> 0]

ObservationCounts == {3, PruneLimit, PruneLimit + 1, PruneLimit + 5}

InitK ==
  /\ InitClock /\ IdleEvents /\ IdleEmb /\ IdleEnt /\ IdleSched
  /\ reflections = <<>> /\ state = [k \in StateKeys |-> Null]
  /\ hasClient \in BOOLEAN /\ threshold = 0 /\ refl = <<>> /\ should = Null
  /\ \E n \in ObservationCounts, m \in {0, PruneLimit + 5},
        s \in {Null, Some("summary")}, t \in {0, 0 - StaleAfter - 1} :
       entities = {StoredEntity(1, "Alice", n, s, t)} \cup
                  (IF m = 0 THEN {} ELSE {StoredEntity(2, "Acme", m, Some("summary"), 0)})
  /\ relations = <<>> /\ relCall = Null /\ relOk = <<>>
  /\ lanceReady = TRUE /\ table = TRUE /\ dbTable = TRUE
  /\ initRow = FALSE /\ createCalls = 0
  /\ vectors = {VectorRecord(e.id, "entity") : e \in entities}
  /\ cons = <<>> /\ rcl = Null /\ core = NoCore /\ unrefl = Null /\ epi = NoEpisodic /\ ladd = <<>> /\ surplus = <<>> /\ host = NoHost

OnlyConsolidate ==
  UNCHANGED <<eventVars, lanceReady, table, dbTable, initRow, createCalls,
              relations, relCall, relOk, reflections, hasClient, threshold, refl,
              should, embVars, entVars, schedVars, rcl, core, unrefl, epi, ladd, surplus, host>>

CnCall == ConsolidateCall /\ OnlyConsolidate
CnSummarized == \E text \in {Null, Some("refreshed")} :
                  ConsolidateSummarized(text) /\ OnlyConsolidate
CnEmbedded == \E ok \in BOOLEAN : ConsolidateEmbedded(ok) /\ OnlyConsolidate
CnDeleted == \E ok \in BOOLEAN : ConsolidateDeleted(ok) /\ OnlyConsolidate
CnAdded == \E ok \in BOOLEAN : ConsolidateAdded(ok) /\ OnlyConsolidate

NextK ==
  \/ CnCall
  \/ CnSummarized
  \/ CnEmbedded
  \/ CnDeleted
  \/ CnAdded

SpecConsolidate == InitK /\ [][NextK]_vars

(***************************************************************************)
(* Properties of consolidation (SpecConsolidate).                          *)
(***************************************************************************)
Returned(c) == c.pc = "done" /\ c.result = "ok"

\* Observations a call has to remove from the rows it read.
Excess(c) ==
  Sum([j \in DOMAIN c.entities |-> Max(0, Len(c.entities[j].observations) - PruneLimit)])

\* The rows a call read that hold more than 20 observations.
Oversized(c) == {j \in DOMAIN c.entities : Len(c.entities[j].observations) > PruneLimit}

\* The stored observations are the last Min(20, n) of the n the call read.
KeptLast(stored, read) ==
  /\ Len(stored) = Min(PruneLimit, Len(read))
  /\ \A i \in DOMAIN stored : stored[i] = read[Len(read) - Len(stored) + i]

\* C22: a consolidate call that returns has cut the observations of exactly
\* the entities that had more than 20 down to their last 20, reports the
\* number removed as observations_pruned and counts each entity it wrote
\* once; when it returns every entity has at most 20 observations.
C22_PruneToLastTwenty ==
  \A k \in DOMAIN cons :
    Returned(cons[k]) =>
      /\ cons[k].observationsPruned = Excess(cons[k])
      /\ cons[k].entitiesUpdated <= Len(cons[k].entities)
      /\ cons[k].entitiesUpdated >= Cardinality(Oversized(cons[k]))
      /\ ~hasClient => cons[k].entitiesUpdated = Cardinality(Oversized(cons[k]))
      /\ k = 1 =>
           \A j \in DOMAIN cons[k].entities :
             \E row \in entities :
               /\ row.id = cons[k].entities[j].id
               /\ KeptLast(row.observations, cons[k].entities[j].observations)
      /\ k = Len(cons) => \A row \in entities : Len(row.observations) <= PruneLimit

\* The test's case: one entity of 25 observations, no provider; the call
\* returns {entities_updated: 1, observations_pruned: 5} and the stored
\* entity starts at the sixth observation.
C22_Witness ==
  /\ ~hasClient
  /\ Len(cons) = 1 /\ Returned(cons[1])
  /\ Len(cons[1].entities) = 1
  /\ cons[1].observationsPruned = 5 /\ cons[1].entitiesUpdated = 1
  /\ \A row \in entities : Len(row.observations) = PruneLimit /\ row.observations[1] = 6

\* C23: a consolidate call never ends by raising: whatever fails for a
\* changed entity, the call returns, the entity's row holds the pruned
\* observations and the entity is counted.
C23_FailureNotFatal ==
  \A k \in DOMAIN cons :
    cons[k].pc = "done" =>
      /\ cons[k].result = "ok"
      /\ cons[k].entitiesUpdated >= Cardinality(Oversized(cons[k]))
      /\ k = Len(cons) => \A row \in entities : Len(row.observations) <= PruneLimit

\* C24: without a provider no step of a consolidate call rewrites an entity
\* it read with 20 or fewer observations, or its vector, and a consolidate that follows one
\* that returned changes no entity row and no vector and returns
\* entities_updated = 0 and observations_pruned = 0.
C24_Idempotent ==
  [][~hasClient =>
       /\ \A k \in DOMAIN cons' : \A j \in DOMAIN cons'[k].entities :
            \A row \in {cons'[k].entities[j]} :
              (k = Len(cons') /\ Len(row.observations) <= PruneLimit) =>
                /\ row \in entities /\ row \in entities'
                /\ \A v \in {VectorRecord(row.id, "entity")} :
                     (v \in vectors) = (v \in vectors')
       /\ (Len(cons') >= 2 /\ Returned(cons'[Len(cons') - 1])) =>
            /\ entities' = entities
            /\ vectors' = vectors
            /\ cons'[Len(cons')].pc = "done"
            /\ Returned(cons'[Len(cons')])
            /\ cons'[Len(cons')].entitiesUpdated = 0
            /\ cons'[Len(cons')].observationsPruned = 0
            /\ cons'[Len(cons')].summariesRefreshed = 0]_vars

\* Two calls without a provider: the first pruned two entities, the
\* second returned zeros.
C24_Witness ==
  /\ ~hasClient
  /\ Len(cons) = 2 /\ Returned(cons[1]) /\ Returned(cons[2])
  /\ cons[1].entitiesUpdated = 2 /\ cons[1].observationsPruned > 5
  /\ cons[2].entitiesUpdated = 0 /\ cons[2].observationsPruned = 0

(***************************************************************************)
(* RetrievalEngine.recall and the recall tool.  A call is cut at its two   *)
(* awaits, the embedding of the query and the vector search; hydration,    *)
(* scoring, touches, sort and cut run without yielding.  Scores are whole  *)
(* numbers: weights in tenths, recency, importance and relevance in        *)
(* thousandths; the age of a memory is counted in whole hours.             *)
(***************************************************************************)
MaxRecalls == 2          \* recall calls

DefaultLimit == 20
SearchFactor == 3
DecayRate == 995         \* config.decayRate, in thousandths
ClockPerHour == 7200     \* clock units (half seconds) in an hour

\* The recall tool: the arguments its handler hands to the engine.
recallTool(args) == [args EXCEPT !.touch = Null]

\* params.touch ?? true
shouldTouch(params) == Val(Coalesce(params.touch, Some(TRUE)))

\* Math.pow(this.config.decayRate, hours), hours a whole number
RECURSIVE pow(_, _)
pow(rate, hours) == IF hours = 0 THEN 1000 ELSE (pow(rate, hours - 1) * rate) \div 1000

\* new Date(accessed_at ?? created_at): accessed_at is in whole seconds
lastAccessed(memory) ==
  IF IsNull(memory.accessed_at) THEN memory.created_at ELSE 2 * Val(memory.accessed_at)

calculateRecency(lastAccessedAt, now) ==
  pow(DecayRate, Max(0, (now - lastAccessedAt) \div ClockPerHour))

\* Math.max(0, Math.min(1, 1 - result.distance / 2))
relevance(distance) == Max(0, Min(1000, 1000 - distance * 500))

\* resolveMemoryFromMaps over the rows fetched by getEventsByIds,
\* getEntitiesByIds and getReflectionsByIds
resolveMemory_blank(id, type) ==
  LET rows == IF type = "event" THEN {e \in events : e.id = id}
              ELSE IF type = "entity" THEN {e \in entities : e.id = id}
              ELSE {reflections[i] : i \in {j \in DOMAIN reflections : reflections[j].id = id}}
  IN  IF rows = {}
        THEN Some([id |-> id, agent_id |-> "", importance |-> 0, created_at |-> 0,
                   accessed_at |-> Null])
        ELSE Some(CHOOSE r \in rows : TRUE)

resolveMemory(id, type) ==
  LET rows == IF type = "event" THEN {e \in events : e.id = id}
              ELSE IF type = "entity" THEN {e \in entities : e.id = id}
              ELSE {reflections[i] : i \in {j \in DOMAIN reflections : reflections[j].id = id}}
  IN  IF rows = {} THEN Null ELSE Some(CHOOSE r \in rows : TRUE)

\* if (params.agent_id && result.memory_type === 'event')
\*   if (event && event.agent_id !== params.agent_id) continue
filteredOut_never(params, result, memory) == FALSE

filteredOut(params, result, memory) ==
  /\ ~IsNull(params.agent_id)
  /\ result.memory_type = "event"
  /\ memory.agent_id # Val(params.agent_id)

\* The vector results the loop does not skip, in the order of the results.
survivors(params, results) ==
  LET K == {i \in DOMAIN results :
              \E m \in {resolveMemory(results[i].memory_id, results[i].memory_type)} :
                ~IsNull(m) /\ ~filteredOut(params, results[i], Val(m))}
  IN  [n \in 1 .. Cardinality(K) |->
         results[CHOOSE i \in K : Cardinality({j \in K : j < i}) = n - 1]]

ScoredMemory(result, memory, now, weights) ==
  LET recency == calculateRecency(lastAccessed(memory), now)
      importance == 100 * clamp(memory.importance, 0, 10)
      rel == relevance(result.distance)
  IN  [id |-> result.memory_id, source |-> result.memory_type,
       score |-> weights[1] * recency + weights[2] * importance + weights[3] * rel,
       recency_score |-> recency, importance_score |-> importance,
       relevance_score |-> rel, created_at |-> memory.created_at]

\* scoredMemories.sort((a, b) => b.score - a.score): a stable sort
sortByScore(memories) ==
  [n \in DOMAIN memories |->
     memories[CHOOSE i \in DOMAIN memories :
                Cardinality({j \in DOMAIN memories :
                               \/ memories[j].score > memories[i].score
                               \/ memories[j].score = memories[i].score /\ j < i}) = n - 1]]

\* scoredMemories.slice(0, limit)
topMemories_all(memories, limit) == memories

topMemories(memories, limit) == SubSeq(memories, 1, Min(limit, Len(memories)))

\* table.search(queryVector).limit(limit): the nearest records, nearest first
search(distance, limit) ==
  LET hits == {[memory_id |-> v.memory_id, memory_type |-> v.memory_type,
                distance |-> distance[v.memory_id]] : v \in vectors}
      sorted == ByRank(hits, [h \in hits |-> Cardinality({o \in hits :
                         \/ o.distance < h.distance
                         \/ o.distance = h.distance /\ o.memory_id < h.memory_id})])
  IN  SubSeq(sorted, 1, Min(limit, Len(sorted)))

IdleRecall(weights) ==
  [pc |-> "idle", calls |-> 0, weights |-> weights, via |-> "engine",
   asked |-> Null, params |-> [limit |-> Null, agent_id |-> Null, touch |-> Null],
   now |-> 0, results |-> <<>>, memories |-> <<>>, result |-> "none"]

\* recall(params), or the recall tool called with args: up to the embedding
RecallCall(via, args) ==
  /\ rcl.pc \in {"idle", "done"}
  /\ rcl.calls < MaxRecalls
  /\ rcl' = [rcl EXCEPT !.pc = "embed", !.calls = @ + 1, !.via = via,
                        !.asked = args.touch,
                        !.params = IF via = "tool" THEN recallTool(args) ELSE args,
                        !.results = <<>>, !.memories = <<>>, !.result = "none"]
  /\ UNCHANGED <<clock, events, entities, reflections>>

\* await this.embeddings.embed(params.query) settles; now = new Date()
RecallEmbedded(ok) ==
  /\ rcl.pc = "embed"
  /\ IF ok
       THEN \E now \in clock .. MaxClock :
              Now(now) /\ rcl' = [rcl EXCEPT !.pc = "search", !.now = now]
       ELSE /\ rcl' = [rcl EXCEPT !.pc = "done", !.result = "embedding_error"]
            /\ UNCHANGED clock
  /\ UNCHANGED <<events, entities, reflections>>

\* A touch after the truncation: of the returned memories only.
touchedMemories_top(scored, limit) ==
  {topMemories(sortByScore(scored), limit)[i] :
     i \in DOMAIN topMemories(sortByScore(scored), limit)}

\* touchMemory is called in the loop, right after the push: for every memory
\* of scoredMemories, before the sort and the slice.
touchedMemories(scored, limit) == {scored[i] : i \in DOMAIN scored}

\* await this.lance.search(queryVector, limit * 3) resolves: the rest of recall
RecallSearched(distance) ==
  /\ rcl.pc = "search"
  /\ \E t \in clock .. MaxClock,
        limit \in {Val(Coalesce(rcl.params.limit, Some(DefaultLimit)))} :
       \E vectorResults \in {search(distance, limit * SearchFactor)} :
         \E passed \in {survivors(rcl.params, vectorResults)} :
           \E scoredMemories \in
                {[n \in DOMAIN passed |->
                    ScoredMemory(passed[n],
                                 Val(resolveMemory(passed[n].memory_id,
                                                   passed[n].memory_type)),
                                 rcl.now, rcl.weights)]} :
            \E touched \in
                {[type \in {"event", "entity", "reflection"} |->
                    IF shouldTouch(rcl.params)
                      THEN {m.id : m \in {o \in touchedMemories(scoredMemories, limit) :
                                             o.source = type}}
                      ELSE {}]} :
             /\ Now(t)
             /\ events' = UNION {IF e.id \in touched["event"]
                                   THEN touchEvent({e}, e.id, t) ELSE {e} : e \in events}
             /\ entities' = UNION {IF e.id \in touched["entity"]
                                     THEN touchEntity({e}, e.id, t) ELSE {e} :
                                   e \in entities}
             /\ reflections' =
                  [i \in DOMAIN reflections |->
                     IF reflections[i].id \in touched["reflection"]
                       THEN touchReflection(<<reflections[i]>>, reflections[i].id, t)[1]
                       ELSE reflections[i]]
             /\ \E sorted \in {sortByScore(scoredMemories)} :
                  rcl' = [rcl EXCEPT !.pc = "done", !.result = "ok",
                                     !.results = vectorResults,
                                     !.memories = topMemories(sorted, limit)]

\* config.weightRecency, weightImportance, weightRelevance (tenths)
Weights == {<<4, 3, 3>>, <<0, 0, 10>>}

\* L2 distances of the stored vectors to a query
MemoryIds == 1 .. 5
Distances == {[i \in MemoryIds |-> 0], [i \in MemoryIds |-> i % 4],
              [i \in MemoryIds |-> (6 - i) % 4]}

RecallArgs ==
  [limit : {Null, Some(1), Some(2)}, agent_id : {Null, Some("a1")},
   touch : {Null, Some(TRUE), Some(FALSE)}]

\* Two events of two agents, one two hours old and touched once, an entity,
\* a reflection, their vectors, and the vector of an event that has no row.
InitV ==
  /\ clock = 0 /\ nextId = 6
  /\ IdleEmb /\ IdleEnt /\ IdleSched
  /\ events = {MemoryEvent(1, "a1", 5, 0),
               [MemoryEvent(2, "a2", 9, 0 - 2 * ClockPerHour) EXCEPT
                  !.accessed_at = Some(0 - ClockPerHour), !.access_count = 1]}
  /\ scorerOn = FALSE /\ rec = <<>>
  /\ entities = {StoredEntity(3, "Alice", 3, Null, 0)}
  /\ relations = <<>> /\ relCall = Null /\ relOk = <<>>
  /\ reflections = <<Reflection(4, TRUE, <<>>, 0 - ClockPerHour)>>
  /\ state = [k \in StateKeys |-> Null]
  /\ hasClient = FALSE /\ threshold = 0 /\ refl = <<>> /\ should = Null
  /\ lanceReady = TRUE /\ table = TRUE /\ dbTable = TRUE
  /\ initRow = FALSE /\ createCalls = 0
  /\ vectors = {VectorRecord(1, "event"), VectorRecord(2, "event"),
                VectorRecord(3, "entity"), VectorRecord(4, "reflection"),
                VectorRecord(5, "event")}
  /\ cons = <<>> /\ core = NoCore /\ unrefl = Null /\ epi = NoEpisodic /\ ladd = <<>> /\ surplus = <<>> /\ host = NoHost
  /\ \E w \in Weights : rcl = IdleRecall(w)

OnlyRecall ==
  UNCHANGED <<nextId, scorerOn, rec, lanceVars, relations, relCall, relOk, state,
              hasClient, threshold, refl, should, embVars, entVars, schedVars,
              cons, core, unrefl, epi, ladd, surplus, host>>

RcCall == \E via \in {"engine", "tool"}, args \in RecallArgs :
            RecallCall(via, args) /\ OnlyRecall
RcEmbedded == \E ok \in BOOLEAN : RecallEmbedded(ok) /\ OnlyRecall
RcSearched == \E d \in Distances : RecallSearched(d) /\ OnlyRecall

NextV ==
  \/ RcCall
  \/ RcEmbedded
  \/ RcSearched

SpecRecall == InitV /\ [][NextV]_vars

(***************************************************************************)
(* Properties of recall (SpecRecall).                                      *)
(***************************************************************************)
RecallReturned == rcl.pc = "done" /\ rcl.result = "ok"

RecallLimit == Val(Coalesce(rcl.params.limit, Some(DefaultLimit)))

\* The relational store holds a row of this id in the table of this type.
RowExists(id, type) ==
  \/ type = "event" /\ \E e \in events : e.id = id
  \/ type = "entity" /\ \E e \in entities : e.id = id
  \/ type = "reflection" /\ \E i \in DOMAIN reflections : reflections[i].id = id

\* An event row of another agent than the one the call filters on.
Foreign(id, type) ==
  /\ ~IsNull(rcl.params.agent_id)
  /\ type = "event"
  /\ \E e \in events : e.id = id /\ e.agent_id # Val(rcl.params.agent_id)

\* C25: recall returns at most limit memories, each with score >= 0, in
\* descending order of score.
C25_RecallBounded ==
  RecallReturned =>
    /\ Len(rcl.memories) <= RecallLimit
    /\ \A i \in DOMAIN rcl.memories : rcl.memories[i].score >= 0
    /\ \A i, j \in DOMAIN rcl.memories :
         i < j => rcl.memories[i].score >= rcl.memories[j].score

\* A recall with limit 2 over more than two vector results returns two
\* memories of different scores.
C25_Witness ==
  /\ RecallReturned
  /\ rcl.params.limit = Some(2)
  /\ Len(rcl.results) > 2
  /\ Len(rcl.memories) = 2
  /\ rcl.memories[1].score > rcl.memories[2].score

\* C26: a recall whose query was embedded returns; a vector result without
\* a row is in no returned memory, and the results that have a row (and
\* pass the agent filter) are returned, up to limit of them.
C26_OrphanSkipped ==
  rcl.pc = "done" =>
    /\ rcl.result = "ok" \/ (rcl.result = "embedding_error" /\ rcl.results = <<>>)
    /\ \A i \in DOMAIN rcl.memories :
         RowExists(rcl.memories[i].id, rcl.memories[i].source)
    /\ RecallReturned =>
         Len(rcl.memories) =
           Min(RecallLimit,
               Cardinality({i \in DOMAIN rcl.results :
                              /\ RowExists(rcl.results[i].memory_id, rcl.results[i].memory_type)
                              /\ ~Foreign(rcl.results[i].memory_id,
                                          rcl.results[i].memory_type)}))

\* A vector result without a row is nearer than a result that is returned.
C26_Witness ==
  /\ RecallReturned
  /\ \E i, j \in DOMAIN rcl.results :
       /\ i < j
       /\ ~RowExists(rcl.results[i].memory_id, rcl.results[i].memory_type)
       /\ \E m \in DOMAIN rcl.memories : rcl.memories[m].id = rcl.results[j].memory_id
  /\ Len(rcl.memories) >= 2

\* C27: a recall with an agent_id filter returns no event of another agent
\* and leaves the row of every event of another agent as it was.
C27_AgentFilter ==
  [][(rcl.pc = "search" /\ ~IsNull(rcl.params.agent_id)) =>
       /\ \A i \in DOMAIN rcl'.memories :
            rcl'.memories[i].source = "event" =>
              \E e \in events : /\ e.id = rcl'.memories[i].id
                                /\ e.agent_id = Val(rcl.params.agent_id)
       /\ \A e \in events : e.agent_id # Val(rcl.params.agent_id) => e \in events']_vars

\* A touching recall filtered on a1 whose nearest result is the event of a2:
\* the event of a1 is returned and touched, the event of a2 is as it was.
C27_Witness ==
  /\ RecallReturned
  /\ rcl.params.agent_id = Some("a1")
  /\ rcl.results # <<>> /\ rcl.results[1].memory_id = 2
  /\ \E i \in DOMAIN rcl.memories : rcl.memories[i].id = 1
  /\ \E e \in events : e.id = 1 /\ e.access_count = 1
  /\ \E e \in events : e.id = 2 /\ e.access_count = 1
                       /\ e.accessed_at = Some(0 - ClockPerHour)

\* C28: no step of a recall asked with touch = false changes a row of the
\* relational store, a vector, a core memory block or the state table.
C28_TouchFalseReadOnly ==
  [][rcl'.asked = Some(FALSE) =>
       /\ events' = events /\ entities' = entities /\ reflections' = reflections
       /\ relations' = relations /\ state' = state /\ core' = core
       /\ vectors' = vectors]_vars

\* The step's vector results hold this memory, its row exists, and the agent
\* filter lets it pass: the loop scores it.
Scored(id, type) ==
  /\ \E i \in DOMAIN rcl'.results :
       rcl'.results[i].memory_id = id /\ rcl'.results[i].memory_type = type
  /\ RowExists(id, type)
  /\ ~Foreign(id, type)

Bump(id, type) == IF Scored(id, type) THEN 1 ELSE 0

MaxReads == 1            \* calls of searchEvents, getTimeline and getEvent

Reading == epi.pc \notin {"idle", "done"}

Read(op, agentId) ==
  [epi EXCEPT !.pc = "done", !.op = op, !.agent_id = agentId, !.calls = @ + 1]

\* getEvent(id): the row is touched when it exists
GetEvent(id) ==
  /\ ~Reading /\ epi.calls < MaxReads
  /\ \E t \in clock .. MaxClock :
       /\ Now(t)
       /\ events' = IF getEvent(events, id) # {} THEN touchEvent(events, id, t)
                                                  ELSE events
  /\ epi' = [Read("getEvent", Null) EXCEPT !.result = {e.id : e \in getEvent(events, id)}]

\* SELECT * FROM events WHERE agent_id = ? AND created_at >= ? AND created_at <= ?
getEventsByTimeRange(evs, agentId, from, to) ==
  {e \in evs : e.agent_id = agentId /\ e.created_at >= from /\ e.created_at <= to}

\* getTimeline(params): a query, no write
GetTimeline(agentId, from, to) ==
  /\ ~Reading /\ epi.calls < MaxReads
  /\ epi' = [Read("getTimeline", Some(agentId)) EXCEPT
               !.result = {e.id : e \in getEventsByTimeRange(events, agentId, from, to)}]
  /\ UNCHANGED <<clock, events>>

\* searchEvents(params) up to await this.embeddings.embed(params.query)
SearchEventsCall(agentId) ==
  /\ ~Reading /\ epi.calls < MaxReads
  /\ epi' = [Read("searchEvents", agentId) EXCEPT !.pc = "embed", !.result = {}]
  /\ UNCHANGED <<clock, events>>

\* embeddings.embed settled
SearchEventsEmbedded(ok) ==
  /\ epi.pc = "embed"
  /\ epi' = [epi EXCEPT !.pc = IF ok THEN "search" ELSE "done"]
  /\ UNCHANGED <<clock, events>>

\* The row of id passes the filters of the loop.
matches(evs, id, agentId) ==
  \E e \in evs : e.id = id /\ (IsNull(agentId) \/ e.agent_id = Val(agentId))

\* lance.search settled: the ids of the event vectors and of the full-text
\* hits are walked, each row that passes the filters is touched and returned.
SearchEventsSearched(ftsIds) ==
  /\ epi.pc = "search"
  /\ \E t \in clock .. MaxClock :
       LET vectorIds == {v.memory_id : v \in {w \in vectors : w.memory_type = "event"}}
           allIds == vectorIds \cup ftsIds
           found == {id \in allIds : matches(events, id, epi.agent_id)}
       IN  /\ Now(t)
           /\ events' = UNION {IF e.id \in found THEN touchEvent({e}, e.id, t) ELSE {e} :
                               e \in events}
           /\ epi' = [epi EXCEPT !.pc = "done", !.result = found]

(***************************************************************************)
(* Specification of the life of event rows: record_event calls next to     *)
(* get_event, search_events, timeline, recall, reflect and consolidate     *)
(* over one store.  The importance scorer is off and the vector table      *)
(* exists, so a record_event call is insert, embed, add.                   *)
(***************************************************************************)
InitL ==
  /\ InitClock /\ OpenLance /\ IdleEmb /\ IdleEnt /\ IdleSched
  /\ events = {} /\ scorerOn = FALSE /\ rec = [c \in Calls |-> IdleCall]
  /\ entities = {StoredEntity(9, "Alice", PruneLimit + 1, Some("summary"), 0)}
  /\ relations = <<>> /\ relCall = Null /\ relOk = <<>>
  /\ reflections = <<>> /\ state = [k \in StateKeys |-> Null]
  /\ hasClient = TRUE /\ threshold = 0 /\ refl = [r \in {"c1"} |-> IdleReflect]
  /\ should = Null
  /\ cons = <<>> /\ rcl = IdleRecall(<<4, 3, 3>>) /\ core = NoCore /\ unrefl = Null
  /\ epi = NoEpisodic /\ ladd = <<>> /\ surplus = <<>> /\ host = NoHost

OnlyEpisodic ==
  UNCHANGED <<nextId, scorerOn, rec, lanceVars, relVars, reflVars, embVars, entVars,
              schedVars, cons, rcl, core, unrefl, ladd, surplus, host>>

MaxOps == 1              \* operations started next to the record_event calls

OpsStarted ==
  epi.calls + rcl.calls + Len(cons) + Cardinality({r \in Reflects : refl[r].pc # "idle"})

\* No operation other than record_event is in flight, and one more may start.
CanStart ==
  /\ OpsStarted < MaxOps
  /\ ~Reading
  /\ rcl.pc \in {"idle", "done"}
  /\ \A r \in Reflects : ~Reflecting(r)
  /\ \A k \in DOMAIN cons : cons[k].pc = "done"

\* The calls record for a1 and a2 in turn, one call at a time.
LfRecord == \E c \in Calls :
              /\ \A d \in Calls : rec[d].pc \in {"idle", "done"}
              /\ RecordEventCall(c, IF c % 2 = 1 THEN "a1" ELSE "a2", Some(3))
              /\ OnlyEvents
LfRecordEmbedded == \E c \in Calls, ok \in BOOLEAN :
                      RecordEventEmbedded(c, ok) /\ OnlyEvents
LfRecordEnsure == \E c \in Calls : RecordEventEnsure(c) /\ OnlyEvents
LfRecordAdded == \E c \in Calls, ok \in BOOLEAN : RecordEventAdded(c, ok) /\ OnlyEvents
LfGetEvent == \E id \in 1 .. MaxCalls : CanStart /\ GetEvent(id) /\ OnlyEpisodic
LfTimeline == \E a \in {"a1"} : CanStart /\ GetTimeline(a, 0, MaxClock) /\ OnlyEpisodic
LfSearch == \E a \in {Null, Some("a1")} : CanStart /\ SearchEventsCall(a) /\ OnlyEpisodic
LfSearchEmbedded == \E ok \in BOOLEAN : SearchEventsEmbedded(ok) /\ OnlyEpisodic
LfSearchSearched == \E ids \in {{}, {e.id : e \in events}} :
                      SearchEventsSearched(ids) /\ OnlyEpisodic
LfRecall == \E a \in {Null, Some("a1")} :
              /\ CanStart
              /\ RecallCall("engine", [limit |-> Null, agent_id |-> a, touch |-> Null])
              /\ OnlyRecall
LfRecallEmbedded == RecallEmbedded(TRUE) /\ OnlyRecall
LfRecallSearched == RecallSearched([i \in 1 .. 12 |-> 0]) /\ OnlyRecall
LfReflect == CanStart /\ refl["c1"].pc = "idle" /\ ReflectCall("c1", "a1", TRUE) /\ OnlyReflect
LfReflectQuestions == ReflectQuestions("c1", 1) /\ OnlyReflect
LfReflectInsight == ReflectInsight("c1", TRUE) /\ OnlyReflect
LfReflectEmbedded == ReflectEmbedded("c1", TRUE) /\ OnlyReflect
LfReflectAdded == ReflectAdded("c1", TRUE) /\ OnlyReflect
LfConsolidate == CanStart /\ ConsolidateCall /\ OnlyConsolidate
LfConsolidateSummarized == ConsolidateSummarized(Null) /\ OnlyConsolidate
LfConsolidateEmbedded == ConsolidateEmbedded(TRUE) /\ OnlyConsolidate
LfConsolidateDeleted == ConsolidateDeleted(TRUE) /\ OnlyConsolidate
LfConsolidateAdded == ConsolidateAdded(TRUE) /\ OnlyConsolidate

NextL ==
  \/ LfRecord
  \/ LfRecordEmbedded
  \/ LfRecordEnsure
  \/ LfRecordAdded
  \/ LfGetEvent
  \/ LfTimeline
  \/ LfSearch
  \/ LfSearchEmbedded
  \/ LfSearchSearched
  \/ LfRecall
  \/ LfRecallEmbedded
  \/ LfRecallSearched
  \/ LfReflect
  \/ LfReflectQuestions
  \/ LfReflectInsight
  \/ LfReflectEmbedded
  \/ LfReflectAdded
  \/ LfConsolidate
  \/ LfConsolidateSummarized
  \/ LfConsolidateEmbedded
  \/ LfConsolidateDeleted
  \/ LfConsolidateAdded

SpecEventLife == InitL /\ [][NextL]_vars

(***************************************************************************)
(* Properties of event rows (SpecEventLife).                               *)
(***************************************************************************)
RecordReturned(c) == rec[c].pc = "done" /\ rec[c].result = "ok"

\* C21: the row of an event that record_event has returned stays in the
\* table in every later step, one row of that id, with every field other
\* than accessed_at and access_count as it was.
C21_EventsImmutable ==
  [][\A c \in DOMAIN rec :
       RecordReturned(c) =>
         /\ Cardinality(getEvent(events', rec[c].id)) = 1
         /\ \E e \in getEvent(events, rec[c].id), f \in getEvent(events', rec[c].id) :
              /\ f.agent_id = e.agent_id
              /\ f.importance = e.importance
              /\ f.created_at = e.created_at]_vars

\* A returned event whose row a later recall has touched, next to another
\* record_event call that failed and deleted its own row.
C21_Witness ==
  /\ rec # <<>>
  /\ \E c, d \in DOMAIN rec :
       /\ RecordReturned(c)
       /\ rec[d].pc = "done" /\ rec[d].result # "ok" /\ rec[d].id > rec[c].id
       /\ \E e \in getEvent(events, rec[c].id) : e.access_count > 0
  /\ rcl # Null /\ rcl.pc = "done" /\ rcl.memories # <<>>

(***************************************************************************)
(* LanceStorage.add.  An id is a text (runs of characters); a vector is    *)
(* its length.  What table.add does with a vector whose length differs     *)
(* from the table's is the library's choice: it takes the record or it     *)
(* rejects.                                                                *)
(***************************************************************************)
MaxAdds == 2             \* calls of add
embeddingDimensions == 384

\* [0123456789ABCDEFGHJKMNPQRSTVWXYZ], case-insensitive
Crockford ==
  {"0", "1", "2", "3", "4", "5", "6", "7", "8", "9", "A", "B", "C", "D", "E", "F",
   "G", "H", "J", "K", "M", "N", "P", "Q", "R", "S", "T", "V", "W", "X", "Y", "Z",
   "a", "b", "c", "d", "e", "f", "g", "h", "j", "k", "m", "n", "p", "q", "r", "s",
   "t", "v", "w", "x", "y", "z"}

UlidLength == 26

\* ULID_REGEX.test(id)
isValidUlid(id) ==
  /\ length(id) = UlidLength
  /\ \A i \in DOMAIN id : id[i].ch \in Crockford

\* add(memoryId, memoryType, vector, ...) up to `await this.ensureTable()`
LanceAddCall(memoryId, memoryType, dims) ==
  /\ Len(ladd) < MaxAdds
  /\ \A k \in DOMAIN ladd : ladd[k].pc = "done"
  /\ ladd' = Append(ladd,
       [pc |-> IF isValidUlid(memoryId) THEN "ensure" ELSE "done",
        memory_id |-> memoryId, memory_type |-> memoryType, dims |-> dims,
        result |-> IF isValidUlid(memoryId) THEN "none" ELSE "invalid_id",
        before |-> [dbTable |-> dbTable, vectors |-> vectors]])
  /\ UNCHANGED lanceVars

Adding(pc) == ladd # <<>> /\ ladd[Len(ladd)].pc = pc

AddMoves(pc, result) ==
  ladd' = [ladd EXCEPT ![Len(ladd)].pc = pc, ![Len(ladd)].result = result]

\* ensureTable() resumed after `await this.ready`
LanceAddEnsure ==
  /\ Adding("ensure")
  /\ lanceReady
  /\ IF needsCreate(table, createCalls)
       THEN createCalls' = createCalls + 1 /\ AddMoves("create", "none")
       ELSE AddMoves("add", "none") /\ UNCHANGED createCalls
  /\ UNCHANGED <<lanceReady, table, dbTable, initRow, vectors>>

\* db.createTable('memories', [emptyRecord]) settled
LanceAddCreated ==
  /\ Adding("create")
  /\ IF dbTable
       THEN AddMoves("done", "table_exists") /\ UNCHANGED <<table, dbTable, initRow>>
       ELSE /\ dbTable' = TRUE /\ initRow' = TRUE /\ table' = TRUE
            /\ AddMoves("uninit", "none")
  /\ UNCHANGED <<lanceReady, vectors, createCalls>>

\* table.delete('memory_id = "__init__"') settled
LanceAddUninit ==
  /\ Adding("uninit")
  /\ initRow' = FALSE
  /\ AddMoves("add", "none")
  /\ UNCHANGED <<lanceReady, table, dbTable, vectors, createCalls>>

\* table.add([record]) settled: taken, or rejected by the library
LanceAddAdded(ok) ==
  /\ Adding("add")
  /\ IF ok
       THEN /\ vectors' = vectors \cup
                 {[memory_id |-> ladd[Len(ladd)].memory_id,
                   memory_type |-> ladd[Len(ladd)].memory_type,
                   dims |-> ladd[Len(ladd)].dims]}
            /\ AddMoves("done", "ok")
       ELSE AddMoves("done", "storage_error") /\ UNCHANGED vectors
  /\ UNCHANGED <<lanceReady, table, dbTable, initRow, createCalls>>

\* A generated id, the same in lower case, a text of 25 characters, a text
\* of 26 characters with a letter outside the alphabet, and 'not-a-ulid'.
MemoryIdInputs ==
  {<<Run("0", 10), Run("A", 16)>>, <<Run("0", 10), Run("z", 16)>>,
   <<Run("0", 10), Run("A", 15)>>, <<Run("0", 10), Run("U", 16)>>,
   <<Run("n", 1), Run("o", 1), Run("t", 1), Run("-", 1), Run("a", 1), Run("-", 1),
     Run("u", 1), Run("l", 1), Run("i", 1), Run("d", 1)>>}

VectorLengths == {embeddingDimensions, 128}

InitA ==
  /\ InitClock /\ IdleRel /\ IdleRefl /\ IdleEmb /\ IdleEnt /\ IdleSched /\ IdleOps
  /\ events = {} /\ scorerOn = FALSE /\ rec = <<>>
  /\ lanceReady = TRUE /\ dbTable \in BOOLEAN /\ table = dbTable
  /\ initRow = FALSE /\ vectors = {} /\ createCalls = 0

OnlyLance ==
  UNCHANGED <<clockVars, eventVars, relVars, reflVars, embVars, entVars, schedVars,
              cons, rcl, core, unrefl, epi, surplus, host>>

LaCall == \E id \in MemoryIdInputs, d \in VectorLengths :
            LanceAddCall(id, "event", d) /\ OnlyLance
LaEnsure == LanceAddEnsure /\ OnlyLance
LaCreated == LanceAddCreated /\ OnlyLance
LaUninit == LanceAddUninit /\ OnlyLance
LaAdded == \E ok \in BOOLEAN : LanceAddAdded(ok) /\ OnlyLance

NextA ==
  \/ LaCall
  \/ LaEnsure
  \/ LaCreated
  \/ LaUninit
  \/ LaAdded

SpecLanceAdd == InitA /\ [][NextA]_vars

(***************************************************************************)
(* Properties of LanceStorage.add (SpecLanceAdd).                          *)
(***************************************************************************)
\* C31: an add whose memory_id is not a valid id, or whose vector is not of
\* the configured length, is rejected and leaves the vector store (its table
\* and its records) as it was when the call was made.
C31_AddRejects ==
  \A k \in DOMAIN ladd :
    (ladd[k].pc = "done" /\ (~isValidUlid(ladd[k].memory_id)
                             \/ ladd[k].dims # embeddingDimensions)) =>
      /\ ladd[k].result # "ok"
      /\ k = Len(ladd) => ladd[k].before = [dbTable |-> dbTable, vectors |-> vectors]

\* The part of C31 about the id: an add with an invalid id is rejected
\* before the store is reached.
C31_InvalidIdRejected ==
  \A k \in DOMAIN ladd :
    (ladd[k].pc = "done" /\ ~isValidUlid(ladd[k].memory_id)) =>
      /\ ladd[k].result = "invalid_id"
      /\ k = Len(ladd) => ladd[k].before = [dbTable |-> dbTable, vectors |-> vectors]

(***************************************************************************)
(* createRelation over a relational store whose INSERT may fail (the catch *)
(* block of insertRelation rethrows).  createRelation calls                *)
(* invalidateRelation and insertRelation one after the other, outside      *)
(* sqlite.transaction.                                                     *)
(***************************************************************************)
MaxFaults == 1           \* inserts that fail

\* Ids taken by createRelation calls whose insert failed.
FailedInserts == nextId - 1 - Len(relations)

CreateRelationInsert(from, to, type, inserted) ==
  IF inserted
    THEN CreateRelation(from, to, type)
    ELSE LET fromEntity == getEntity(entities, from)
             toEntity == getEntity(entities, to)
         IN  /\ Len(relations) < MaxRelations
             /\ FailedInserts < MaxFaults
             /\ ~IsNull(fromEntity) /\ ~IsNull(toEntity)
             /\ relations' = invalidateRelation(relations, Val(fromEntity).id,
                                                Val(toEntity).id, type, clock)
             /\ nextId' = nextId + 1
             /\ relCall' = Some([from |-> from, to |-> to, type |-> type,
                                 before |-> relations, outcome |-> "storage_error",
                                 name |-> ""])
             /\ UNCHANGED <<clock, entities, relOk>>

RelInsert ==
  /\ \E from \in {"alice", "Acme"}, to \in {"Alice", "acme"}, type \in RelationTypes,
        inserted \in BOOLEAN :
       CreateRelationInsert(from, to, type, inserted)
  /\ UNCHANGED <<eventVars, lanceVars, reflVars, embVars, entVars, schedVars, opVars>>

NextRI ==
  \/ Tick
  \/ RelInsert

SpecRelationFaults == InitR /\ [][NextRI]_vars

(***************************************************************************)
(* Properties of createRelation under insert failures (SpecRelationFaults). *)
(***************************************************************************)
\* C32: after a createRelation whose insert failed, the relations table is
\* as it was before the call: a triple that had an open row has one.
C32_InvalidationRolledBack ==
  (~IsNull(relCall) /\ Val(relCall).outcome = "storage_error") =>
    /\ relations = Val(relCall).before
    /\ \A i \in DOMAIN Val(relCall).before :
         LET r == Val(relCall).before[i]
         IN  IsNull(r.valid_until) =>
               OpenRows(<<r.from_entity, r.to_entity, r.relation_type>>) # {}

(***************************************************************************)
(* updateEntity next to consolidate on one entity.  table.add appends a    *)
(* row whatever rows the table holds: vectors says which records exist,    *)
(* surplus counts the rows of a memory_id beyond the first.                *)
(***************************************************************************)
\* table.add([record]) took a record of this memory_id
rowAdded(id) ==
  IF \E v \in vectors : v.memory_id = id
    THEN [surplus EXCEPT ![id] = @ + 1] ELSE surplus

\* table.delete(`memory_id = "${memoryId}"`) removed every row of this memory_id
rowsDeleted(id) == [surplus EXCEPT ![id] = 0]

\* countRows() restricted to one memory_id
rowsOf(id) == (IF \E v \in vectors : v.memory_id = id THEN 1 ELSE 0) + surplus[id]

InitX ==
  /\ InitClock /\ IdleEvents /\ IdleEmb /\ IdleSched
  /\ reflections = <<>> /\ state = [k \in StateKeys |-> Null]
  /\ hasClient = FALSE /\ threshold = 0 /\ refl = <<>> /\ should = Null
  /\ entities = {StoredEntity(1, "Alice", PruneLimit + 1, Some("summary"), 0)}
  /\ relations = <<>> /\ relCall = Null /\ relOk = <<>>
  /\ lanceReady = TRUE /\ table = TRUE /\ dbTable = TRUE
  /\ initRow = FALSE /\ createCalls = 0
  /\ vectors = {VectorRecord(1, "entity")}
  /\ upd = [u \in {"u1"} |-> IdleUpdate]
  /\ cons = <<>> /\ rcl = Null /\ core = NoCore /\ unrefl = Null
  /\ epi = NoEpisodic /\ ladd = <<>>
  /\ surplus = [id \in {1} |-> 0] /\ host = NoHost

OnlyRace ==
  UNCHANGED <<eventVars, lanceReady, table, dbTable, initRow, createCalls, relations,
              relCall, relOk, reflections, hasClient, threshold, refl, should,
              embVars, schedVars, rcl, core, unrefl, epi, ladd, host>>

\* update_entity(Alice, observations: [100])
XUpdate ==
  /\ UpdateEntity("u1", [name |-> "Alice", entity_type |-> "concept",
                         observations |-> Some(<<100>>), summary |-> Null,
                         importance |-> Null])
  /\ UNCHANGED <<cons, state, surplus>> /\ OnlyRace
XUpdateEmbedded ==
  /\ \E ok \in BOOLEAN : UpdateEmbedded("u1", ok)
  /\ UNCHANGED <<cons, state, surplus>> /\ OnlyRace
XUpdateDeleted ==
  /\ \E ok \in BOOLEAN :
       /\ UpdateDeleted("u1", ok)
       /\ surplus' = IF ok THEN rowsDeleted(upd["u1"].id) ELSE surplus
  /\ UNCHANGED <<cons, state>> /\ OnlyRace
XUpdateAdded ==
  /\ \E ok \in BOOLEAN :
       /\ UpdateAdded("u1", ok)
       /\ surplus' = IF ok THEN rowAdded(upd["u1"].id) ELSE surplus
  /\ UNCHANGED <<cons, state>> /\ OnlyRace
XConsolidate == ConsolidateCall /\ UNCHANGED <<upd, surplus>> /\ OnlyRace
XConsolidateEmbedded ==
  /\ \E ok \in BOOLEAN : ConsolidateEmbedded(ok)
  /\ UNCHANGED <<upd, surplus>> /\ OnlyRace
\* The vector store takes every delete and add of consolidate (a failure is
\* caught and logged, and would not show in the result of the call).
XConsolidateDeleted ==
  /\ ConsolidateDeleted(TRUE)
  /\ surplus' = rowsDeleted(Val(cons[Len(cons)].entity).id)
  /\ UNCHANGED upd /\ OnlyRace
XConsolidateAdded ==
  /\ ConsolidateAdded(TRUE)
  /\ surplus' = rowAdded(Val(cons[Len(cons)].entity).id)
  /\ UNCHANGED upd /\ OnlyRace

NextX ==
  \/ XUpdate
  \/ XUpdateEmbedded
  \/ XUpdateDeleted
  \/ XUpdateAdded
  \/ XConsolidate
  \/ XConsolidateEmbedded
  \/ XConsolidateDeleted
  \/ XConsolidateAdded

SpecEntityRace == InitX /\ [][NextX]_vars

(***************************************************************************)
(* Properties of updateEntity next to consolidate (SpecEntityRace).        *)
(***************************************************************************)
Settled ==
  /\ \A u \in Updates : upd[u].pc \in {"idle", "done"}
  /\ \A k \in DOMAIN cons : cons[k].pc = "done"

\* C33: once an update_entity that added observation 100 and every
\* consolidate call have finished, the stored row of the entity holds 100.
C33_ObservationKept ==
  (Settled /\ upd["u1"].result = "ok") =>
    \A row \in entities :
      row.id = upd["u1"].id => \E i \in DOMAIN row.observations : row.observations[i] = 100

\* C34: once every update_entity and consolidate call has finished, none of
\* them with an error, the vector table holds one row of the entity's id.
C34_OneVector ==
  (/\ Settled
   /\ cons # <<>> /\ \A k \in DOMAIN cons : cons[k].result = "ok"
   /\ upd["u1"].result = "ok") =>
    rowsOf(1) = 1

(***************************************************************************)
(* Reflection cycles next to record_event calls (SpecEventLife)            *)
(***************************************************************************)

EventIds == {e.id : e \in events}

\* C35: every id in the source_ids of a stored reflection is the id of an
\* existing event row, also when a record_event call of the same agent fails
\* and compensates while the reflect cycle is suspended.
C35_SourceIdsExist ==
  \A i \in DOMAIN reflections :
    \A j \in DOMAIN reflections[i].source_ids :
      reflections[i].source_ids[j] \in EventIds


(***************************************************************************)
(* Specification of one reflect caller next to record_event calls, over    *)
(* a store that holds one event of agent a1.                               *)
(***************************************************************************)
InitRR ==
  /\ clock = 0 /\ nextId = 2
  /\ lanceReady = TRUE /\ table = TRUE /\ dbTable = TRUE
  /\ initRow = FALSE /\ vectors = {VectorRecord(1, "event")} /\ createCalls = 0
  /\ IdleRel /\ IdleEmb /\ IdleEnt /\ IdleSched /\ IdleOps
  /\ events = {MemoryEvent(1, "a1", 5, 0)} /\ scorerOn = FALSE
  /\ rec = [c \in Calls |-> IdleCall]
  /\ reflections = <<>> /\ state = [k \in StateKeys |-> Null]
  /\ hasClient = TRUE /\ threshold \in Thresholds
  /\ refl = [r \in {"c1"} |-> IdleReflect] /\ should = Null

\* The record_event calls run one after another and their awaits resolve
\* (the rejecting awaits are those of SpecEvents and SpecEventLife); reflect
\* is called once.
RrRecord == \E c \in Calls, a \in Agents :
              /\ \A d \in Calls : rec[d].pc \in {"idle", "done"}
              /\ RecordEventCall(c, a, Some(3))
              /\ OnlyEvents
RrRecordEmbedded == \E c \in Calls : RecordEventEmbedded(c, TRUE) /\ OnlyEvents
RrRecordEnsure == \E c \in Calls : RecordEventEnsure(c) /\ OnlyEvents
RrRecordAdded == \E c \in Calls : RecordEventAdded(c, TRUE) /\ OnlyEvents
RrReflect == \E f \in BOOLEAN :
               refl["c1"].pc = "idle" /\ ReflectCall("c1", "a1", f) /\ OnlyReflect
RrQuestions == \E lines \in QuestionLines :
                 ReflectQuestions("c1", Min(lines, MaxQuestions)) /\ OnlyReflect
RrInsight == \E i \in BOOLEAN : ReflectInsight("c1", i) /\ OnlyReflect
RrEmbedded == \E ok \in BOOLEAN : ReflectEmbedded("c1", ok) /\ OnlyReflect
RrAdded == \E ok \in BOOLEAN : ReflectAdded("c1", ok) /\ OnlyReflect

NextRR ==
  \/ Tick
  \/ RrRecord
  \/ RrRecordEmbedded
  \/ RrRecordEnsure
  \/ RrRecordAdded
  \/ RrReflect
  \/ RrQuestions
  \/ RrInsight
  \/ RrEmbedded
  \/ RrAdded

SpecReflectRecord == InitRR /\ [][NextRR]_vars

\* The ids the cycle of caller r read at its start.
SnapshotIds(r) == {refl[r].unreflected[i].id : i \in DOMAIN refl[r].unreflected}

\* The source ids of the reflections the cycle of caller r has stored.
CycleSourceIds(r, refls, out) ==
  UNION {{refls[i].source_ids[j] : j \in DOMAIN refls[i].source_ids} :
           i \in {k \in DOMAIN refls : \E o \in DOMAIN out : out[o] = refls[k].id}}

\* C36: an event row of the agent that a reflect cycle did not read at its
\* start (it was recorded while the cycle was suspended) is not retired by
\* the cycle: in the step that ends the cycle the row is among the source
\* ids of the cycle's reflections or is still returned by
\* getUnreflectedEvents for the agent.
C36_NotRetired ==
  [][\A r \in Reflects :
       (Reflecting(r) /\ refl'[r].pc = "done" /\ refl'[r].result = "ok") =>
         \A e \in events' :
           (e.agent_id = refl[r].agent /\ e.id \notin SnapshotIds(r)) =>
             \/ e.id \in CycleSourceIds(r, reflections', refl'[r].out)
             \/ \E u \in {getUnreflectedEvents(events', state', refl[r].agent,
                                               UnreflectedLimit)} :
                  \E i \in DOMAIN u : u[i].id = e.id]_vars

\* A cycle that stored a reflection has ended after a record_event call of
\* the same agent returned an event the cycle had not read.
C36_Witness ==
  /\ refl["c1"].pc = "done" /\ refl["c1"].result = "ok" /\ refl["c1"].out # <<>>
  /\ \E c \in Calls :
       /\ RecordReturned(c)
       /\ rec[c].agent = refl["c1"].agent
       /\ rec[c].id \notin SnapshotIds("c1")
       /\ rec[c].id \in EventIds
       /\ \E mark \in {getState(state, lastReflectionAt)} :
            ~IsNull(mark) /\ rec[c].now < Val(mark)


(***************************************************************************)
(* Reflect callers of separate engines (SpecReflectOverlap): c1 is the     *)
(* engine of the scheduler, c2 the engine of the reflect tool.             *)
(***************************************************************************)

\* C37: at most one reflection cycle per agent is in flight in the process,
\* also when the two calls come from separate engine instances.
C37_OneCyclePerAgent ==
  \A r1 \in Reflects, r2 \in Reflects :
    (r1 # r2 /\ Reflecting(r1) /\ Reflecting(r2)) => refl[r1].agent # refl[r2].agent


(***************************************************************************)
(* runServe: the shutdown handler next to the runs of the scheduler        *)
(***************************************************************************)

\* process.exit has not run.
Alive == host.pc # "exited"

OnlyHost ==
  UNCHANGED <<clockVars, eventVars, lanceVars, relVars, reflVars, embVars, entVars,
              schedVars, cons, rcl, core, unrefl, epi, ladd, surplus>>

\* shutdown() up to `await server.close()`: scheduler.stop() clears both
\* timers, the 5 s timeout is armed.
Shutdown ==
  /\ host.pc = "serving"
  /\ host' = [host EXCEPT !.pc = "closing", !.timers = FALSE]
  /\ OnlyHost

\* A handler whose finally block leaves the process running after the
\* stores are closed.
ShutdownClosed_linger(serverOk, lanceOk) ==
  /\ host.pc = "closing"
  /\ host' = IF serverOk
               THEN [host EXCEPT !.pc = "closed", !.sqliteOpen = FALSE,
                                 !.lanceOpen = ~lanceOk]
               ELSE [host EXCEPT !.pc = "exited"]
  /\ OnlyHost

\* `await server.close()` settled: in the try block sqlite.close() and
\* lance.close() run without a suspension, and the finally block calls
\* process.exit(0) whatever the try block did.
ShutdownClosed(serverOk, lanceOk) ==
  /\ host.pc = "closing"
  /\ host' = IF serverOk
               THEN [host EXCEPT !.pc = "exited", !.sqliteOpen = FALSE,
                                 !.lanceOpen = ~lanceOk]
               ELSE [host EXCEPT !.pc = "exited"]
  /\ OnlyHost

\* The 5 s timeout fires while server.close() is pending: process.exit(1).
ShutdownTimeout ==
  /\ host.pc = "closing"
  /\ host' = [host EXCEPT !.pc = "exited", !.code = 1]
  /\ OnlyHost

(***************************************************************************)
(* Specification of a served process: the scheduler is started, its ticks  *)
(* run reflect for the default agent and consolidate, a signal shuts the   *)
(* process down.  Nothing runs in a process that has exited.               *)
(***************************************************************************)
InitSD ==
  /\ clock = 0 /\ nextId = 3
  /\ lanceReady = TRUE /\ table = TRUE /\ dbTable = TRUE /\ initRow = FALSE
  /\ createCalls = 0
  /\ vectors = {VectorRecord(1, "event"), VectorRecord(2, "entity")}
  /\ IdleEmb /\ IdleEnt /\ IdleSched
  /\ events = {MemoryEvent(1, "a1", 8, 0)} /\ scorerOn = FALSE /\ rec = <<>>
  /\ entities = {StoredEntity(2, "Alice", PruneLimit + 1, Some("summary"), 0)}
  /\ relations = <<>> /\ relCall = Null /\ relOk = <<>>
  /\ reflections = <<>> /\ state = [k \in StateKeys |-> Null]
  /\ hasClient = TRUE /\ threshold \in Thresholds
  /\ refl = [r \in {"c1"} |-> IdleReflect] /\ should = Null
  /\ cons = <<>> /\ rcl = Null /\ core = NoCore /\ unrefl = Null
  /\ epi = NoEpisodic /\ ladd = <<>> /\ surplus = <<>>
  /\ host = [NoHost EXCEPT !.timers = TRUE]

SdClosed == \E serverOk \in BOOLEAN, lanceOk \in BOOLEAN :
              Alive /\ ShutdownClosed(serverOk, lanceOk)
\* A tick of the reflection timer: checkReflection calls reflect (one tick).
SdReflect ==
  /\ Alive /\ host.timers /\ refl["c1"].pc = "idle"
  /\ ReflectCall("c1", "a1", FALSE) /\ OnlyReflect
SdQuestions == \E lines \in QuestionLines :
                 Alive /\ ReflectQuestions("c1", Min(lines, MaxQuestions)) /\ OnlyReflect
SdInsight == \E i \in BOOLEAN : Alive /\ ReflectInsight("c1", i) /\ OnlyReflect
SdEmbedded == \E ok \in BOOLEAN : Alive /\ ReflectEmbedded("c1", ok) /\ OnlyReflect
SdAdded == \E ok \in BOOLEAN : Alive /\ ReflectAdded("c1", ok) /\ OnlyReflect
\* A tick of the consolidation timer: runConsolidation calls consolidate.
SdConsolidate == Alive /\ host.timers /\ ConsolidateCall /\ OnlyConsolidate
SdConsolidateSummarized == \E sm \in {Null, Some("summary")} :
                             Alive /\ ConsolidateSummarized(sm) /\ OnlyConsolidate
SdConsolidateEmbedded == \E ok \in BOOLEAN : Alive /\ ConsolidateEmbedded(ok) /\ OnlyConsolidate
SdConsolidateDeleted == \E ok \in BOOLEAN : Alive /\ ConsolidateDeleted(ok) /\ OnlyConsolidate
SdConsolidateAdded == \E ok \in BOOLEAN : Alive /\ ConsolidateAdded(ok) /\ OnlyConsolidate

NextSD ==
  \/ Shutdown
  \/ SdClosed
  \/ ShutdownTimeout
  \/ SdReflect
  \/ SdQuestions
  \/ SdInsight
  \/ SdEmbedded
  \/ SdAdded
  \/ SdConsolidate
  \/ SdConsolidateSummarized
  \/ SdConsolidateEmbedded
  \/ SdConsolidateDeleted
  \/ SdConsolidateAdded

SpecShutdown == InitSD /\ [][NextSD]_vars

\* A reflect or consolidate run is between its start and its end.
RunInFlight == Reflecting("c1") \/ \E k \in DOMAIN cons : cons[k].pc # "done"

\* C38: once shutdown has closed the relational store, no run of reflect or
\* consolidate that was in flight takes another step: neither the position
\* of a run nor a row of the relational or the vector store changes.
C38_NoStepAfterClose ==
  [][~host.sqliteOpen =>
       UNCHANGED <<refl, cons, events, entities, reflections, state, vectors>>]_vars

\* The relational store was closed while a run was in flight.
C38_Witness == ~host.sqliteOpen /\ RunInFlight


(***************************************************************************)
(* Specification of two update_entity callers on one name: each calls      *)
(* once, the awaits of the two calls interleave.                           *)
(***************************************************************************)
OverlapObservations == [u1 |-> {<<100>>, <<1, 100>>}, u2 |-> {<<101>>, <<101, 100>>}]

InitUU ==
  /\ clock = 0 /\ IdleEvents /\ IdleRefl /\ IdleEmb /\ IdleSched /\ IdleOps
  /\ lanceReady = TRUE /\ table = TRUE /\ dbTable = TRUE /\ initRow = FALSE
  /\ createCalls = 0
  /\ relations = <<>> /\ relCall = Null /\ relOk = <<>>
  /\ \/ entities = {} /\ vectors = {} /\ nextId = 1
     \/ /\ entities = {StoredEntity(1, "Alice", 2, Null, 0)}
        /\ vectors = {VectorRecord(1, "entity")}
        /\ nextId = 2
  /\ upd = [u \in {"u1", "u2"} |-> IdleUpdate]

UuUpdate == \E u \in Updates : \E obs \in OverlapObservations[u] :
              /\ upd[u].pc = "idle"
              /\ UpdateEntity(u, [name |-> "Alice", entity_type |-> "person",
                                  observations |-> Some(obs), summary |-> Null,
                                  importance |-> Null])
              /\ OnlyEntities
UuEmbedded == \E u \in Updates, ok \in BOOLEAN : UpdateEmbedded(u, ok) /\ OnlyEntities
UuDeleted == \E u \in Updates, ok \in BOOLEAN : UpdateDeleted(u, ok) /\ OnlyEntities
UuAdded == \E u \in Updates, ok \in BOOLEAN : UpdateAdded(u, ok) /\ OnlyEntities

NextUU ==
  \/ Tick
  \/ UuUpdate
  \/ UuEmbedded
  \/ UuDeleted
  \/ UuAdded

SpecEntityOverlap == InitUU /\ [][NextUU]_vars

\* The stored row of the name holds every observation the call of u passed.
ObservationsStored(u) ==
  \E row \in entities :
    /\ row.name = upd[u].name
    /\ \A i \in DOMAIN Val(upd[u].observations) :
         \E j \in DOMAIN row.observations :
           row.observations[j] = Val(upd[u].observations)[i]

\* C39: two update_entity calls on one name that overlap never lose an
\* observation: from the commit of a call's transaction on, and so after
\* both calls returned, the stored list holds every observation passed to
\* the call.
C39_NoLostObservation ==
  \A u \in Updates : upd[u].committed => ObservationsStored(u)

\* Both calls are suspended after their transactions: they overlap.
C39_Witness ==
  /\ \A u \in Updates : upd[u].committed /\ upd[u].pc \in {"embed", "delete", "add"}
  /\ \E u \in Updates, v \in Updates :
       u # v /\ Val(upd[u].observations) # Val(upd[v].observations)


====
